---- MODULE Spec2Model ----
(***************************************************************************)
(* Fault composition and introspection of PlayerR9/go-error (go-fault).    *)
(*                                                                         *)
(* The heap holds the fault values a program has built; descriptors are   *)
(* separate allocations compared by reference.  The head of the           *)
(* repository is package faults (Join, Traverse, Is, As, context store)    *)
(* over package fault (descriptor, BaseFault, constructors); the helpers   *)
(* of the older package errs are modelled next to it where they are cited. *)
(***************************************************************************)
EXTENDS Integers, Sequences, FiniteSets, TLC

----------------------------------------------------------------------------
(* Bounds of the model. *)

MaxUserFaults == 2      \* faults built directly by the program (Join adds its own)
MaxHeap       == 6      \* faults on the heap, those allocated by Join included
MaxTime       == 2      \* clock readings 0..MaxTime
MaxArgs       == 2      \* length of an argument list handed to Join

----------------------------------------------------------------------------
(* Program constants. *)

Nil == 0                \* the absent fault / nil interface value

\* FaultLevel, src/base.go:24-47: lower ordinal = more severe.
UnknownLevel == -1
FATAL        == 0
ERROR        == 1
WARNING      == 2
NOTICE       == 3
DEBUG        == 4

\* Outcomes of a call that does not return a value: a panic carrying
\* BadConstruction.Init(), and a loop that never ends.  They are kept apart
\* from every level, timestamp and fault id.
Panicked == -2
Hung     == -3

Levels == {FATAL, ERROR, WARNING, NOTICE, DEBUG}

\* The nil any: the value of a context key that is not there, and the
\* Value or Err of a fault that was given none.
NilValue == "<nil>"

\* Levels handed to the constructors before a Join.
JoinLevels == {FATAL, WARNING, DEBUG}

VARIABLES
    descs,      \* descriptor allocations: <<[level, code, msg], ...>>, index = identity
    heap,       \* fault allocations: <<record, ...>>, index = identity
    now,        \* the clock read by time.Now()
    joins,      \* the last Join call, <<[args, out]>>, or <<>> before the first
    pc,         \* position of the Traverse/Is/As call: idle, run, done, panic, hang
    call,       \* the arguments of that call
    stack,      \* the explicit stack of Traverse
    visited,    \* the faults the visit function was invoked on, in order
    result,     \* the boolean the call returned (read when pc = "done")
    slot,       \* the value held by the variable that As's target points to
    sw          \* the StreamWriter of the program: its err, actual and total

callVars == <<pc, call, stack, visited, result, slot>>

vars == <<descs, heap, now, joins, pc, call, stack, visited, result, slot, sw>>

Faults == 1..Len(heap)

\* StreamWriter, src/writer.go:283-295, but for the io.Writer it wraps; err
\* is NilValue while no write has failed.
StreamWriter(err, actual, total) == [err |-> err, actual |-> actual, total |-> total]

----------------------------------------------------------------------------
(* Values on the heap. *)

\* faultDescriptor, src/descriptor.go:30-39.
Descriptor(level, code, msg) == [level |-> level, code |-> code, msg |-> msg]

\* BaseFault, src/unnamed/part_005:14-30: descriptor, timestamp, and the
\* suggestions, stack trace and context it starts without.  It embeds
\* nothing and has no Unwrap, Is or As method.
BaseFault(d, t) ==
    [kind |-> "base", typ |-> "*BaseFault", desc |-> d, ts |-> t, emb |-> Nil,
     faults |-> <<>>, uwKind |-> "none", uw |-> <<>>,
     hasIs |-> FALSE, isAns |-> FALSE, hasAs |-> FALSE, asAns |-> FALSE,
     suggestions |-> <<>>, stack_trace |-> <<>>, context |-> <<>>,
     value |-> NilValue]

\* A wrapping fault such as ErrPanic, src/unnamed/part_012:10-20: a struct
\* that embeds a Fault (possibly nil) and returns it from Embeds(), and
\* holds the Value it was given.
ErrPanic(e) ==
    [kind |-> "wrap", typ |-> "*ErrPanic", desc |-> Nil, ts |-> 0, emb |-> e,
     faults |-> <<>>, uwKind |-> "none", uw |-> <<>>,
     hasIs |-> FALSE, isAns |-> FALSE, hasAs |-> FALSE, asAns |-> FALSE,
     suggestions |-> <<>>, stack_trace |-> <<>>, context |-> <<>>,
     value |-> NilValue]

\* JoinFault, src/unnamed/part_016:10-22: the synthesized base it embeds
\* and the member list it retains.  It declares no Unwrap method.
JoinFault(b, fs) ==
    [kind |-> "join", typ |-> "*JoinFault", desc |-> Nil, ts |-> 0, emb |-> b,
     faults |-> fs, uwKind |-> "none", uw |-> <<>>,
     hasIs |-> FALSE, isAns |-> FALSE, hasAs |-> FALSE, asAns |-> FALSE,
     suggestions |-> <<>>, stack_trace |-> <<>>, context |-> <<>>,
     value |-> NilValue]

\* Embeds(), src/unnamed/part_005:35-37, part_012:18-20, part_016:20-22.
Embeds(h, f) == h[f].emb

----------------------------------------------------------------------------
(* Reaching the BaseFault of a fault. *)

\* The loop of Access, src/faults/operations.go:13-20.  It has no cycle
\* guard: a walk of more than Len(h) Embeds() steps has revisited a fault
\* and never ends.
RECURSIVE AccessLoop(_, _, _)
AccessLoop(h, f, steps) ==
    IF f = Nil THEN Nil
    ELSE IF h[f].kind = "base" THEN f
    ELSE IF steps = 0 THEN Hung
    ELSE AccessLoop(h, Embeds(h, f), steps - 1)

\* Access[*flt.BaseFault], src/faults/operations.go:10-23: the BaseFault,
\* Nil for (zero, false), Hung when the loop does not end.
Access(h, f) == AccessLoop(h, f, Len(h))

\* DescriptorOf, src/faults/operations.go:25-36.
DescriptorOf(h, f) ==
    IF f = Nil THEN Nil
    ELSE LET base == Access(h, f) IN
         IF base = Hung THEN Hung
         ELSE IF base = Nil THEN Panicked
         ELSE h[base].desc

\* LevelOf, src/faults/operations.go:51-62.
LevelOf(h, ds, f) ==
    IF f = Nil THEN UnknownLevel
    ELSE LET base == Access(h, f) IN
         IF base = Hung THEN Hung
         ELSE IF base = Nil THEN Panicked
         ELSE ds[h[base].desc].level

\* TimestampOf, src/faults/operations.go:64-75.  The zero time.Time of the
\* nil case is before every clock reading.
ZeroTime == -1
TimestampOf(h, f) ==
    IF f = Nil THEN ZeroTime
    ELSE LET base == Access(h, f) IN
         IF base = Hung THEN Hung
         ELSE IF base = Nil THEN Panicked
         ELSE h[base].ts

\* The call record while no Traverse/Is/As call has been made.
NoCall == [op |-> "none", fault |-> Nil, target |-> Nil, tdesc |-> Nil,
           tkind |-> "none", T |-> "none"]

----------------------------------------------------------------------------
(* Constructors. *)

\* time.Now() advancing between two calls.
Tick ==
    /\ now < MaxTime
    /\ now' = now + 1
    /\ UNCHANGED <<descs, heap, joins, sw, callVars>>

\* WithLevel, src/constructors.go:31-35: NewDescriptor followed by
\* faultDescriptor.Init, src/descriptor.go:70-79 (timestamp = time.Now()).
WithLevel(level, code, msg) ==
    /\ descs' = Append(descs, Descriptor(level, code, msg))
    /\ heap' = Append(heap, BaseFault(Len(descs) + 1, now))
    /\ UNCHANGED <<now, sw, joins, callVars>>

\* NewErrPanic-style construction of a wrapping fault around e, src/unnamed/
\* part_012:42-49; e = Nil is the struct literal that embeds nothing.
NewErrPanic(e) ==
    /\ heap' = Append(heap, ErrPanic(e))
    /\ UNCHANGED <<descs, now, sw, joins, callVars>>

----------------------------------------------------------------------------
(* Join, package faults (head). *)

\* fmt.Sprintf("joined %d faults", n), src/unnamed/part_016:82.
JoinMsg(n) == "joined " \o ToString(n) \o " faults"

\* The count of lines 51-57 of src/unnamed/part_016.
CountNotNil(faults) == Cardinality({i \in DOMAIN faults : faults[i] # Nil})

\* The loop of src/unnamed/part_016:72-80 from index i on: it keeps the
\* numerically greatest level and stops at the first LevelOf that panics.
RECURSIVE HighestLoop(_, _, _, _, _)
HighestLoop(h, ds, faults, i, highest) ==
    IF highest \in {Panicked, Hung} THEN highest
    ELSE IF i > Len(faults) THEN highest
    ELSE LET level == LevelOf(h, ds, faults[i]) IN
         IF level \in {Panicked, Hung} THEN level
         ELSE HighestLoop(h, ds, faults, i + 1,
                          IF level > highest THEN level ELSE highest)

\* highest := LevelOf(faults[0]) and the loop over faults[1:].
JoinHighest(h, ds, faults) ==
    HighestLoop(h, ds, faults, 2, LevelOf(h, ds, faults[1]))

\* The record of the last call.
Remember(log, rec) == <<rec>>

\* Join, src/unnamed/part_016:49-90.  The filtered copy `result` of lines
\* 63-69 is never read; the level loop, the message and the member list
\* all use the argument slice `faults` as passed.
Join(faults) ==
    IF CountNotNil(faults) = 0
    THEN /\ joins' = Remember(joins, [args |-> faults, out |-> Nil])
         /\ UNCHANGED <<descs, heap, now, sw, callVars>>
    ELSE LET highest == JoinHighest(heap, descs, faults) IN
         IF highest \in {Panicked, Hung}
         THEN /\ joins' = Remember(joins, [args |-> faults, out |-> highest])
              /\ UNCHANGED <<descs, heap, now, sw, callVars>>
         ELSE /\ Len(heap) + 2 <= MaxHeap
              /\ descs' = Append(descs,
                     Descriptor(highest, "FaultJoin", JoinMsg(Len(faults))))
              /\ heap' = heap \o << BaseFault(Len(descs) + 1, now),
                                    JoinFault(Len(heap) + 1, faults) >>
              /\ joins' = Remember(joins,
                     [args |-> faults, out |-> Len(heap) + 2])
              /\ UNCHANGED <<now, sw, callVars>>

----------------------------------------------------------------------------
(* Join, older snapshots (packages errs and fault). *)

\* Level(), src/constructors.go:242-244, promoted through the embedded
\* Fault of a wrapper; a call on a nil interface is a nil dereference.
Level(h, ds, f) == IF f = Nil THEN Panicked ELSE LevelOf(h, ds, f)

\* Timestamp(), src/constructors.go:247-249, promoted likewise.
Timestamp(h, f) == IF f = Nil THEN Panicked ELSE TimestampOf(h, f)

\* RejectNil, src/helpers.go:104-126.
RejectNil(faults) == SelectSeq(faults, LAMBDA f : f # Nil)

\* The loop of src/helpers.go:147-153 (and of src/unnamed/part_000:177-183)
\* from index i on.
RECURSIVE LevelLoop(_, _, _, _, _)
LevelLoop(h, ds, faults, i, highest) ==
    IF highest \in {Panicked, Hung} THEN highest
    ELSE IF i > Len(faults) THEN highest
    ELSE LET level == Level(h, ds, faults[i]) IN
         IF level \in {Panicked, Hung} THEN level
         ELSE LevelLoop(h, ds, faults, i + 1,
                        IF level > highest THEN level ELSE highest)

\* HighestFaultLevel, src/helpers.go:139-156.
HighestFaultLevel(h, ds, faults) ==
    LET present == RejectNil(faults) IN
    IF Len(present) = 0 THEN [level |-> 0, ok |-> FALSE]
    ELSE [level |-> LevelLoop(h, ds, present, 2, Level(h, ds, present[1])),
          ok |-> TRUE]

\* The loop of src/helpers.go:175-182 (and of src/unnamed/part_000:188-194)
\* from index i on: timestamp.Before(min) keeps the first earliest one.
RECURSIVE OldestLoop(_, _, _, _, _)
OldestLoop(h, faults, i, min, idx) ==
    IF min \in {Panicked, Hung} THEN [fault |-> min, timestamp |-> min]
    ELSE IF i > Len(faults) THEN [fault |-> faults[idx], timestamp |-> min]
    ELSE LET timestamp == Timestamp(h, faults[i]) IN
         IF timestamp \in {Panicked, Hung}
         THEN [fault |-> timestamp, timestamp |-> timestamp]
         ELSE IF timestamp < min
              THEN OldestLoop(h, faults, i + 1, timestamp, i)
              ELSE OldestLoop(h, faults, i + 1, min, idx)

\* OldestFault, src/helpers.go:166-185.
OldestFault(h, faults) ==
    LET present == RejectNil(faults) IN
    IF Len(present) = 0 THEN [fault |-> Nil, timestamp |-> ZeroTime]
    ELSE OldestLoop(h, present, 2, Timestamp(h, present[1]), 1)

\* Marks a joinFault value returned by the older joins (not a heap fault).
JoinValue == 1

\* Join of package errs, src/unnamed/part_000:52-79: the joinFault it
\* returns, Nil, or the panic of a member without a base.
JoinErrs(h, ds, faults) ==
    LET present == RejectNil(faults) IN
    IF Len(present) = 0 THEN [out |-> Nil]
    ELSE LET highest == HighestFaultLevel(h, ds, present)
             oldest  == OldestFault(h, present)
         IN  IF highest.level \in {Panicked, Hung} THEN [out |-> highest.level]
             ELSE IF oldest.fault \in {Panicked, Hung} THEN [out |-> oldest.fault]
             ELSE [out |-> JoinValue, level |-> highest.level,
                   msg |-> JoinMsg(Len(present)),
                   timestamp |-> oldest.timestamp, faults |-> present]

\* Join of package fault, src/unnamed/part_000:152-204: both loops run over
\* the unfiltered argument slice, so a nil entry is dereferenced.
JoinInline(h, ds, faults) ==
    IF CountNotNil(faults) = 0 THEN [out |-> Nil]
    ELSE LET highest == LevelLoop(h, ds, faults, 2, Level(h, ds, faults[1]))
             oldest  == OldestLoop(h, faults, 2, Timestamp(h, faults[1]), 1)
         IN  IF highest \in {Panicked, Hung} THEN [out |-> highest]
             ELSE IF oldest.fault \in {Panicked, Hung} THEN [out |-> oldest.fault]
             ELSE [out |-> JoinValue, level |-> highest,
                   msg |-> JoinMsg(Len(faults)),
                   timestamp |-> oldest.timestamp, faults |-> faults]

\* Argument lists: faults of the heap and nil entries, in any order.
ArgLists == UNION {[1..n -> Faults \cup {Nil}] : n \in 0..MaxArgs}

Init ==
    /\ descs = <<>>
    /\ heap = <<>>
    /\ now = 0
    /\ joins = <<>>
    /\ pc = "idle"
    /\ call = NoCall
    /\ stack = <<>>
    /\ visited = <<>>
    /\ result = FALSE
    /\ slot = Nil
    /\ sw = StreamWriter(NilValue, 0, 0)

NextJoin ==
    \/ Tick
    \/ /\ Len(heap) < MaxUserFaults
       /\ \E level \in JoinLevels : WithLevel(level, "OperationFailed", "msg")
    \/ /\ Len(heap) < MaxUserFaults
       /\ \E e \in Faults \cup {Nil} : NewErrPanic(e)
    \/ \E faults \in ArgLists : Join(faults)

SpecJoin == Init /\ [][NextJoin]_vars

----------------------------------------------------------------------------
(* Properties of Join. *)

\* The present entries of an argument list.
Present(faults) == {faults[i] : i \in {k \in DOMAIN faults : faults[k] # Nil}}

\* The most severe of a set of levels: Fatal (0) first, Debug (4) last.
MostSevere(levels) == CHOOSE l \in levels : \A m \in levels : l <= m

\* The earliest of a set of timestamps.
Earliest(times) == CHOOSE t \in times : \A u \in times : t <= u

\* The last Join call returned a fault.
Returned(c) == c.out \in Faults

\* C1: a fault returned by join has the level of the most severe present
\* member (Fatal most severe, Debug least).
C1_JoinLevelIsMostSevere ==
    \A i \in DOMAIN joins :
        Returned(joins[i]) =>
            LevelOf(heap, descs, joins[i].out) =
                MostSevere({LevelOf(heap, descs, f) : f \in Present(joins[i].args)})

\* C2: the timestamp of a fault returned by join is the earliest timestamp
\* among the present members, not the time of the call.
C2_JoinTimestampIsEarliest ==
    \A i \in DOMAIN joins :
        Returned(joins[i]) =>
            TimestampOf(heap, joins[i].out) =
                Earliest({TimestampOf(heap, f) : f \in Present(joins[i].args)})

\* b is a permutation of a.
IsPermutation(a, b) ==
    /\ Len(a) = Len(b)
    /\ \E p \in Permutations(1..Len(a)) : \A i \in 1..Len(a) : b[i] = a[p[i]]

\* Two join results agree: both absent, or the same level and timestamp.
Agree(h1, ds1, out1, h2, ds2, out2) ==
    \/ out1 = Nil /\ out2 = Nil
    \/ /\ out1 # Nil
       /\ out2 # Nil
       /\ LevelOf(h1, ds1, out1) = LevelOf(h2, ds2, out2)
       /\ TimestampOf(h1, out1) = TimestampOf(h2, out2)

\* C3: join is insensitive to argument order: a call on a permutation of
\* the previous call's list gives a result that agrees with the previous one
\* (both absent, or equal level and equal timestamp).
C3_JoinOrderInsensitive ==
    [][ ( /\ joins # <<>>
          /\ joins' # <<>>
          /\ joins' # joins
          /\ joins[1].out \in Faults \cup {Nil}
          /\ joins'[1].out \in (1..Len(heap')) \cup {Nil}
          /\ IsPermutation(joins[1].args, joins'[1].args) )
        => Agree(heap, descs, joins[1].out, heap', descs', joins'[1].out) ]_vars

\* C4: join of an empty or all-absent list is absent; join of a list with
\* exactly one present fault f is a Join Fault with f's level and f's
\* timestamp.
C4_JoinEmptyAndSingle ==
    \A i \in DOMAIN joins :
        LET c == joins[i] IN
        /\ CountNotNil(c.args) = 0 => c.out = Nil
        /\ (CountNotNil(c.args) = 1 /\ c.out \notin {Panicked, Hung}) =>
              /\ c.out \in Faults
              /\ heap[c.out].kind = "join"
              /\ \A f \in Present(c.args) :
                    /\ LevelOf(heap, descs, c.out) = LevelOf(heap, descs, f)
                    /\ TimestampOf(heap, c.out) = TimestampOf(heap, f)

\* C5: for a list mixing present and absent entries, the message is
\* "joined N faults" with N the number of present entries, and the retained
\* member list is exactly the present entries in their original order.
C5_JoinCountsAndKeepsPresentOnly ==
    \A i \in DOMAIN joins :
        LET c == joins[i] IN
        (Returned(c) /\ CountNotNil(c.args) < Len(c.args)) =>
            /\ descs[DescriptorOf(heap, c.out)].msg = JoinMsg(CountNotNil(c.args))
            /\ heap[c.out].faults = RejectNil(c.args)

\* The joins of the older snapshots on the arguments of the last call.
ErrsJoinTimestampIsEarliest ==
    \A i \in DOMAIN joins :
        LET r == JoinErrs(heap, descs, joins[i].args) IN
        r.out = JoinValue =>
            /\ r.timestamp = Earliest({TimestampOf(heap, f) : f \in Present(joins[i].args)})
            /\ r.msg = JoinMsg(CountNotNil(joins[i].args))
            /\ r.faults = RejectNil(joins[i].args)

ErrsJoinLevelIsMostSevere ==
    \A i \in DOMAIN joins :
        LET r == JoinErrs(heap, descs, joins[i].args) IN
        r.out = JoinValue =>
            r.level = MostSevere({LevelOf(heap, descs, f) : f \in Present(joins[i].args)})

InlineJoinTimestampIsEarliest ==
    \A i \in DOMAIN joins :
        LET r == JoinInline(heap, descs, joins[i].args) IN
        r.out = JoinValue =>
            r.timestamp = Earliest({TimestampOf(heap, f) : f \in Present(joins[i].args)})

----------------------------------------------------------------------------
(* Faults of user-defined types, and the bounds of the search model. *)

MaxIsFaults == 3        \* faults on the heap when Is or As is called
MaxMocks    == 2        \* faults of user-defined types among them
MaxUnwrap   == 2        \* length of the list returned by Unwrap() []Fault
MaxStack    == 4        \* entries of Traverse's stack the model follows
MaxVisits   == 8        \* invocations of fn the model logs: more than any
                        \* search of a graph without a cycle makes here

\* The faults of user-defined types on the heap.
Mocks == {f \in Faults : heap[f].typ = "*MockErr"}

\* MockErr, src/unnamed/part_004:3-9: a user type embedding a Fault, here
\* with the optional methods Traverse, Is and As probe for.  uwKind is
\* "none", "one" (Unwrap() Fault, uw = <<inner>>) or "many" (Unwrap()
\* []Fault returning the slice uw it stores); isAns is what its Is method
\* reports; asAns is what its As method does: "no" (reports false and
\* leaves *target alone) or "yes" (stores a value of its own choosing in
\* *target and reports true).
MockErr(e, uwKind, uw, hasIs, isAns, hasAs, asAns) ==
    [kind |-> "wrap", typ |-> "*MockErr", desc |-> Nil, ts |-> 0, emb |-> e,
     faults |-> <<>>, uwKind |-> uwKind, uw |-> uw,
     hasIs |-> hasIs, isAns |-> isAns, hasAs |-> hasAs, asAns |-> asAns,
     suggestions |-> <<>>, stack_trace |-> <<>>, context |-> <<>>,
     value |-> NilValue]

\* The unwrap capabilities a MockErr can be given over the faults built so far.
UnwrapShapes ==
    {[uwKind |-> "none", uw |-> <<>>]}
    \cup {[uwKind |-> "one", uw |-> <<f>>] : f \in Faults \cup {Nil}}
    \cup {[uwKind |-> "many", uw |-> l] :
            l \in UNION {[1..n -> Faults \cup {Nil}] : n \in 0..MaxUnwrap}}

\* No Is method, one reporting equal, one reporting not equal.
IsShapes == {[hasIs |-> FALSE, isAns |-> FALSE],
             [hasIs |-> TRUE, isAns |-> TRUE],
             [hasIs |-> TRUE, isAns |-> FALSE]}

\* No As method, or one of the two behaviours above.
AsShapes == {[hasAs |-> FALSE, asAns |-> "no"],
             [hasAs |-> TRUE, asAns |-> "no"],
             [hasAs |-> TRUE, asAns |-> "yes"]}

\* A constructor runs between calls; the record of the last call is dropped.
ResetCall ==
    /\ pc # "run"
    /\ pc' = "idle"
    /\ call' = NoCall
    /\ stack' = <<>>
    /\ visited' = <<>>
    /\ result' = FALSE
    /\ slot' = Nil

\* faultDescriptor.Init on descriptor d, src/descriptor.go:70-79.
DescriptorInit(d) ==
    /\ heap' = Append(heap, BaseFault(d, now))
    /\ ResetCall
    /\ UNCHANGED <<descs, now, sw, joins>>

\* New, src/constructors.go:16-20: NewDescriptor(ERROR, ...) and Init.
New(code, msg) ==
    /\ descs' = Append(descs, Descriptor(ERROR, code, msg))
    /\ heap' = Append(heap, BaseFault(Len(descs) + 1, now))
    /\ ResetCall
    /\ UNCHANGED <<now, sw, joins>>

\* &MockErr{Fault: e, ...}, src/unnamed/part_004:15-21.
NewMockErr(mock) ==
    /\ heap' = Append(heap, mock)
    /\ ResetCall
    /\ UNCHANGED <<descs, now, sw, joins>>

----------------------------------------------------------------------------
(* Traverse, package faults (head). *)

\* The in-place filter of src/unnamed/part_014:60-69 from index i on, with
\* top entries written so far: the backing array it leaves and the count.
RECURSIVE CompactLoop(_, _, _)
CompactLoop(inners, i, top) ==
    IF i > Len(inners) THEN [arr |-> inners, top |-> top]
    ELSE IF inners[i] # Nil
         THEN CompactLoop([inners EXCEPT ![top + 1] = inners[i]], i + 1, top + 1)
         ELSE CompactLoop(inners, i + 1, top)

\* What the type switch of src/unnamed/part_014:50-73 appends to the stack.
Pushed(h, f) ==
    IF h[f].uwKind = "one"
    THEN (IF h[f].uw[1] # Nil THEN <<h[f].uw[1]>> ELSE <<>>)
    ELSE IF h[f].uwKind = "many"
    THEN LET c == CompactLoop(h[f].uw, 1, 0) IN SubSeq(c.arr, 1, c.top)
    ELSE <<>>

\* The heap after that switch: the filter writes through the slice that
\* Unwrap() returned, which is the fault's own list.
AfterUnwrap(h, f) ==
    IF h[f].uwKind = "many"
    THEN [h EXCEPT ![f].uw = CompactLoop(h[f].uw, 1, 0).arr]
    ELSE h

----------------------------------------------------------------------------
(* Is and As, package faults (head). *)

Outcome(v) == IF v = Panicked THEN "panic" ELSE "hang"

\* Mutant: descriptors compared by their fields instead of by reference.
IsVisitByValue(h, f, target, target_desc) ==
    LET f_desc == DescriptorOf(h, f) IN
    IF f_desc \in {Panicked, Hung} THEN Outcome(f_desc)
    ELSE IF f = target \/ descs[f_desc] = descs[target_desc] THEN "true"
    ELSE IF h[f].hasIs THEN "true"
    ELSE "false"

\* Mutant: the identity test negated.
IsVisitNotIdentical(h, f, target, target_desc) ==
    LET f_desc == DescriptorOf(h, f) IN
    IF f_desc \in {Panicked, Hung} THEN Outcome(f_desc)
    ELSE IF f # target \/ f_desc = target_desc THEN "true"
    ELSE IF h[f].hasIs THEN "true"
    ELSE "false"

\* The visit function of Is, src/unnamed/part_014:99-108.
IsVisit(h, f, target, target_desc) ==
    LET f_desc == DescriptorOf(h, f) IN
    IF f_desc \in {Panicked, Hung} THEN Outcome(f_desc)
    ELSE IF f = target \/ f_desc = target_desc THEN "true"
    ELSE IF h[f].hasIs THEN "true"
    ELSE "false"

\* The types a slot can be declared with: the Fault interface, an interface
\* no fault type implements, pointer types implementing Fault, and a type
\* that is neither.
SlotTypes == {"Fault", "Other", "*BaseFault", "*MockErr", "*JoinFault", "int"}

\* type_.Kind() == reflect.Interface, src/unnamed/part_014:139.
IsInterface(T) == T \in {"Fault", "Other"}

\* type_.Implements(_FaultType), src/unnamed/part_014:139.
ImplementsFault(T) == T \in {"Fault", "*BaseFault", "*ErrPanic", "*MockErr", "*JoinFault"}

\* reflect.TypeOf(f).AssignableTo(type_), src/unnamed/part_014:144.
AssignableTo(typ, T) == T = "Fault" \/ typ = T

\* Mutant: the fault's own As method is asked before its type is tested.
AsVisitCustomFirst(h, f, T) ==
    IF h[f].hasAs /\ h[f].asAns = "yes" THEN "custom"
    ELSE IF AssignableTo(h[f].typ, T) THEN "set"
    ELSE "false"

\* Mutant: the presence of an As method is taken for its success.
AsVisitAnyAs(h, f, T) ==
    IF AssignableTo(h[f].typ, T) THEN "set"
    ELSE IF h[f].hasAs THEN "set"
    ELSE "false"

\* What a fault's own As method leaves in *target when it reports true: a
\* value of the slot's type that the method chose, src/unnamed/part_014:150-151.
\* A fault that is not assignable to the slot's type cannot store itself.
Foreign == -4

\* The visit function of As, src/unnamed/part_014:143-152: "set" stores f
\* in the slot; otherwise the fault's own As method decides.
AsVisit(h, f, T) ==
    IF AssignableTo(h[f].typ, T) THEN "set"
    ELSE IF h[f].hasAs /\ h[f].asAns = "yes" THEN "custom"
    ELSE "false"

\* fn(top) for the call in progress.
Visit(h, f) ==
    IF call.op = "Is" THEN IsVisit(h, f, call.target, call.tdesc)
    ELSE IF call.op = "As" THEN AsVisit(h, f, call.T)
    ELSE IF f \in call.fn.yes THEN "true"
    ELSE "false"

\* The log of the faults fn was invoked on keeps the first MaxVisits of
\* them; a search that goes on after that goes on unlogged.
Logged(log, top) == IF Len(log) < MaxVisits THEN Append(log, top) ELSE log

\* One iteration of the loop of Traverse, src/unnamed/part_014:42-74, and
\* the return that follows it when the stack is empty.
TraverseStep ==
    /\ pc = "run"
    /\ LET top  == stack[Len(stack)]
           rest == SubSeq(stack, 1, Len(stack) - 1)
           v    == Visit(heap, top)
       IN  /\ visited' = Logged(visited, top)
           /\ IF v \in {"true", "set", "custom"}
              THEN /\ pc' = "done"
                   /\ result' = TRUE
                   /\ stack' = rest
                   /\ slot' = IF v = "set" THEN top
                              ELSE IF v = "custom" THEN Foreign
                              ELSE slot
                   /\ UNCHANGED heap
              ELSE IF v \in {"panic", "hang"}
              THEN /\ pc' = v
                   /\ stack' = rest
                   /\ UNCHANGED <<result, slot, heap>>
              ELSE /\ stack' = rest \o Pushed(heap, top)
                   /\ heap' = AfterUnwrap(heap, top)
                   /\ pc' = IF stack' = <<>> THEN "done" ELSE "run"
                   /\ result' = FALSE
                   /\ UNCHANGED slot
    /\ UNCHANGED <<descs, now, sw, joins, call>>

\* Mutant: the guard requires both arguments to be nil.
IsGuardBoth(fault, target) == fault = Nil /\ target = Nil

\* The guard of Is, src/unnamed/part_014:93-95.
IsGuard(fault, target) == fault = Nil \/ target = Nil

\* Is, src/unnamed/part_014:92-111, up to the first iteration of Traverse:
\* the guard, target_desc := DescriptorOf(target), then Traverse's own
\* guard (line 36) and stack := []Fault{fault}.
Is(fault, target) ==
    /\ pc # "run"
    /\ call' = [op |-> "Is", fault |-> fault, target |-> target,
                tdesc |-> DescriptorOf(heap, target), tkind |-> "none", T |-> "none"]
    /\ visited' = <<>>
    /\ result' = FALSE
    /\ slot' = Nil
    /\ IF IsGuard(fault, target)
       THEN pc' = "done" /\ stack' = <<>>
       ELSE IF DescriptorOf(heap, target) \in {Panicked, Hung}
       THEN pc' = Outcome(DescriptorOf(heap, target)) /\ stack' = <<>>
       ELSE IF fault = Nil
       THEN pc' = "done" /\ stack' = <<>>
       ELSE pc' = "run" /\ stack' = <<fault>>
    /\ UNCHANGED <<descs, heap, now, sw, joins>>

\* The ways a caller can pass As's target: untyped nil, a non-pointer
\* value, a nil pointer, a pointer to a variable of type T.
TargetKinds == {"nil", "nonptr", "nilptr", "ptr"}

\* Mutant: the nil pointer is let through.
IsAnyPointer(tkind) == tkind \in {"ptr", "nilptr"}

\* target_type.Kind() == reflect.Ptr && !target_value.IsNil(),
\* src/unnamed/part_014:134.
IsNonNilPointer(tkind) == tkind = "ptr"

\* As, src/unnamed/part_014:126-153, up to the call of Traverse; init is
\* the value the variable behind target holds before the call.
As(fault, tkind, T, init) ==
    /\ pc # "run"
    /\ call' = [op |-> "As", fault |-> fault, target |-> init, tdesc |-> Nil,
                tkind |-> tkind, T |-> T]
    /\ visited' = <<>>
    /\ result' = FALSE
    /\ slot' = init
    /\ IF fault = Nil \/ tkind = "nil"
       THEN pc' = "done" /\ stack' = <<>>
       ELSE IF ~IsNonNilPointer(tkind)
       THEN pc' = "done" /\ stack' = <<>>
       ELSE IF ~IsInterface(T) /\ ~ImplementsFault(T)
       THEN pc' = "done" /\ stack' = <<>>
       ELSE pc' = "run" /\ stack' = <<fault>>
    /\ UNCHANGED <<descs, heap, now, sw, joins>>

NextIs ==
    \/ /\ Len(heap) < MaxIsFaults
       /\ New("OperationFailed", "msg")
    \/ /\ Len(heap) < MaxIsFaults
       /\ \E d \in 1..Len(descs) : DescriptorInit(d)
    \/ /\ Len(heap) < MaxIsFaults
       /\ Cardinality(Mocks) < MaxMocks
       /\ \E e \in Faults \cup {Nil}, u \in UnwrapShapes, i \in IsShapes :
             NewMockErr(MockErr(e, u.uwKind, u.uw, i.hasIs, i.isAns, FALSE, "no"))
    \/ \E fault, target \in Faults \cup {Nil} : Is(fault, target)
    \/ TraverseStep

SpecIs == Init /\ [][NextIs]_vars

\* The targets handed to As: untyped nil, a Fault passed by value, a nil
\* *Fault, and a pointer to a variable of type T holding nil or the first
\* fault of the heap when it has that type.
Targets ==
    {[tkind |-> "nil", T |-> "none", init |-> Nil]}
    \cup {[tkind |-> k, T |-> "Fault", init |-> Nil] : k \in {"nonptr", "nilptr"}}
    \cup UNION {{[tkind |-> "ptr", T |-> T, init |-> v] :
                    v \in {Nil} \cup {f \in Faults \cap {1} : AssignableTo(heap[f].typ, T)}} :
                 T \in SlotTypes}

NextAs ==
    \/ /\ Len(heap) < MaxIsFaults
       /\ New("UnknownCode", "msg")
    \/ /\ Len(heap) < MaxIsFaults
       /\ Cardinality(Mocks) < MaxMocks
       /\ \E u \in UnwrapShapes, a \in AsShapes :
             NewMockErr(MockErr(Nil, u.uwKind, u.uw, FALSE, FALSE, a.hasAs, a.asAns))
    \/ \E fault \in Faults \cup {Nil}, t \in Targets : As(fault, t.tkind, t.T, t.init)
    \/ TraverseStep

SpecAs == Init /\ [][NextAs]_vars

\* The functions handed to Traverse: the nil func, or a function that
\* returns true on the faults of yes and false on every other.
VisitFn(isNil, yes) == [nil |-> isNil, yes |-> yes]

NeverTrue == VisitFn(FALSE, {})

\* Mutant: only the fault is tested.
TraverseGuardFaultOnly(fault, fn) == fault = Nil

\* fault == nil || fn == nil, src/unnamed/part_014:36-38.
TraverseGuard(fault, fn) == fault = Nil \/ fn.nil

\* Traverse, src/unnamed/part_014:35-40, up to the first iteration of its
\* loop.
TraverseWith(fault, fn) ==
    /\ pc # "run"
    /\ call' = [op |-> "Traverse", fault |-> fault, target |-> Nil,
                tdesc |-> Nil, tkind |-> "none", T |-> "none", fn |-> fn]
    /\ visited' = <<>>
    /\ result' = FALSE
    /\ slot' = Nil
    /\ IF TraverseGuard(fault, fn)
       THEN pc' = "done" /\ stack' = <<>>
       ELSE pc' = "run" /\ stack' = <<fault>>
    /\ UNCHANGED <<descs, heap, now, sw, joins>>

\* Traverse called with a function that returns false for every fault.
Traverse(fault) == TraverseWith(fault, NeverTrue)

\* Faults are built and joined, and the results are traversed.
NextWalk ==
    \/ /\ pc # "run"
       /\ Len(heap) < MaxUserFaults
       /\ \E level \in JoinLevels : WithLevel(level, "OperationFailed", "msg")
    \/ /\ pc # "run"
       /\ \E faults \in ArgLists : Join(faults)
    \/ \E fault \in Faults \cup {Nil} : Traverse(fault)
    \/ TraverseStep

SpecWalk == Init /\ [][NextWalk]_vars

----------------------------------------------------------------------------
(* Properties of Is and As. *)

\* The embedding chain of f reaches a BaseFault.
WellBuilt(h, f) == Access(h, f) \in 1..Len(h)

\* The faults a fault exposes through Unwrap().
UnwrapTargets(h, n) == {h[n].uw[i] : i \in DOMAIN h[n].uw} \ {Nil}

\* The faults reachable from the faults of S through unwrap links.
RECURSIVE Closure(_, _)
Closure(h, S) ==
    LET more == S \cup UNION {UnwrapTargets(h, n) : n \in S}
    IN  IF more = S THEN S ELSE Closure(h, more)

Reachable(h, f) == Closure(h, {f})

\* An Is call that has ended (returned, panicked, or is known never to end).
IsEnded == call.op = "Is" /\ pc # "run"

\* An As call that has ended.
AsEnded == call.op = "As" /\ pc # "run"

TwoBases ==
    /\ call.fault # Nil
    /\ call.target # Nil
    /\ call.fault # call.target
    /\ heap[call.fault].kind = "base"
    /\ heap[call.target].kind = "base"

\* C7: two distinct Base Faults initialised from the same Descriptor
\* instance satisfy is(a, b) (in both orders); two Base Faults initialised
\* from separately constructed Descriptors with identical level, code and
\* message do not.
C7_DescriptorIdentityByReference ==
    (IsEnded /\ TwoBases) =>
        /\ pc = "done"
        /\ heap[call.fault].desc = heap[call.target].desc => result = TRUE
        /\ ( /\ heap[call.fault].desc # heap[call.target].desc
             /\ descs[heap[call.fault].desc] = descs[heap[call.target].desc] )
           => result = FALSE

\* is(a, b) has returned false for two Base Faults whose separate
\* descriptors have identical fields.
C7_Witness ==
    /\ IsEnded
    /\ TwoBases
    /\ pc = "done"
    /\ result = FALSE
    /\ heap[call.fault].desc # heap[call.target].desc
    /\ descs[heap[call.fault].desc] = descs[heap[call.target].desc]

\* n has the same Descriptor instance as g.
SameDescriptor(h, n, g) ==
    /\ WellBuilt(h, n)
    /\ WellBuilt(h, g)
    /\ DescriptorOf(h, n) = DescriptorOf(h, g)

\* No fault reachable from f matches g by identity, by Descriptor or
\* through an Is method.
NothingMatches(h, f, g) ==
    \A n \in Reachable(h, f) :
        /\ n # g
        /\ ~SameDescriptor(h, n, g)
        /\ ~h[n].hasIs

C9_CustomEqualityIsConsulted ==
    (IsEnded /\ pc = "done" /\ result = TRUE) =>
        LET n == visited[Len(visited)] IN
        \/ n = call.target
        \/ SameDescriptor(heap, n, call.target)
        \/ heap[n].hasIs /\ heap[n].isAns

\* No fault reachable from f can be extracted into a slot of type T.
NothingExtracts(h, f, T) ==
    \A n \in Reachable(h, f) :
        /\ ~AssignableTo(h[n].typ, T)
        /\ ~(h[n].hasAs /\ h[n].asAns = "yes")

AsSearches ==
    /\ call.op = "As"
    /\ call.fault # Nil
    /\ call.tkind = "ptr"
    /\ (IsInterface(call.T) \/ ImplementsFault(call.T))

\* Fault n has a type assignable to the slot of the call.
Matches(n) == AssignableTo(heap[n].typ, call.T)

\* Some fault reachable from the fault of the call matches the slot's type.
SomeMatch == \E n \in Reachable(heap, call.fault) : Matches(n)

\* Fault n does not match the slot's type and has an As method that
\* reports success.
CustomSucceeds(n) == ~Matches(n) /\ heap[n].hasAs /\ heap[n].asAns = "yes"

\* The As call returned true by storing the last fault it visited, which
\* is the first visited fault that matches the slot's type.
StoredFirstMatch ==
    /\ pc = "done"
    /\ result = TRUE
    /\ visited # <<>>
    /\ slot = visited[Len(visited)]
    /\ slot # Nil
    /\ slot \in Reachable(heap, call.fault)
    /\ Matches(slot)
    /\ \A i \in 1..(Len(visited) - 1) : ~Matches(visited[i])

AsTurnedDown ==
    /\ call.op = "As"
    /\ \/ call.fault = Nil
       \/ call.tkind \in {"nil", "nonptr", "nilptr"}
       \/ call.T = "int"

----------------------------------------------------------------------------
(* Properties of Traverse over joined faults. *)

\* The sequence s in reverse order.
Reverse(s) == [i \in 1..Len(s) |-> s[Len(s) + 1 - i]]

\* The traversed fault is a JoinFault whose members are all present leaf
\* faults, and the traversal with an always-false function has returned.
WalkedJoinOfLeaves ==
    /\ call.op = "Traverse"
    /\ pc = "done"
    /\ call.fault # Nil
    /\ heap[call.fault].kind = "join"
    /\ \A i \in DOMAIN heap[call.fault].faults :
          /\ heap[call.fault].faults[i] # Nil
          /\ heap[heap[call.fault].faults[i]].kind = "base"

\* C13: traversing the Join Fault of present leaf faults x1, ..., xn with a
\* function that always returns false visits the Join Fault first and then
\* every member once, in the order xn, ..., x1.
C13_TraverseVisitsJoinMembersReversed ==
    WalkedJoinOfLeaves =>
        visited = <<call.fault>> \o Reverse(heap[call.fault].faults)

\* What the code does instead: only the Join Fault itself is visited.
WalkVisitsOnlyTheJoinFault ==
    WalkedJoinOfLeaves => visited = <<call.fault>>

----------------------------------------------------------------------------
(* EmbeddingTower, src/unnamed/part_006:130-160 (the same loop as           *)
(* src/fault.go:238-268).  The call uses the variables of a call in         *)
(* progress: stack is its stack, and visited lists the keys of its map      *)
(* seen in the order they were added.                                       *)

MaxTower == 6            \* entries of the tower's stack the model follows

\* m.Fault = e on a MockErr, whose embedded field is exported,
\* src/unnamed/part_004:3-5: this is how an embeds chain comes to loop.
SetEmbedded(w, e) ==
    /\ pc # "run"
    /\ heap[w].emb # e
    /\ heap' = [heap EXCEPT ![w].emb = e]
    /\ ResetCall
    /\ UNCHANGED <<descs, now, sw, joins>>

\* Mutant: the map is never found to hold a fault.
SeenNever(seen, top) == FALSE

\* _, ok := seen[top], src/unnamed/part_006:142.
Seen(seen, top) == \E i \in DOMAIN seen : seen[i] = top

\* Mutant: the stack is returned as it was collected, outermost first.
TowerAsCollected(collected) == collected

\* slices.Reverse(stack) and the return, src/unnamed/part_006:157-159.
TowerResult(collected) == Reverse(collected)

\* EmbeddingTower up to its loop, src/unnamed/part_006:130-137.
EmbeddingTower(fault) ==
    /\ pc # "run"
    /\ call' = [op |-> "EmbeddingTower", fault |-> fault, target |-> Nil,
                tdesc |-> Nil, tkind |-> "none", T |-> "none"]
    /\ visited' = <<>>
    /\ result' = FALSE
    /\ slot' = Nil
    /\ IF fault = Nil
       THEN pc' = "done" /\ stack' = <<>>
       ELSE pc' = "run" /\ stack' = <<fault>>
    /\ UNCHANGED <<descs, heap, now, sw, joins>>

\* One iteration of the loop, src/unnamed/part_006:139-155, and on leaving
\* it the reversal and return of lines 157-159.
TowerStep ==
    /\ pc = "run"
    /\ call.op = "EmbeddingTower"
    /\ Len(stack) <= MaxTower
    /\ LET top == stack[Len(stack)] IN
       IF Seen(visited, top)
       THEN /\ pc' = "done"
            /\ stack' = TowerResult(stack)
            /\ UNCHANGED visited
       ELSE /\ visited' = Append(visited, top)
            /\ IF Embeds(heap, top) = Nil
               THEN /\ pc' = "done"
                    /\ stack' = TowerResult(stack)
               ELSE /\ pc' = "run"
                    /\ stack' = Append(stack, Embeds(heap, top))
    /\ UNCHANGED <<descs, heap, now, sw, joins, call, result, slot>>

NextTower ==
    \/ /\ Len(heap) < MaxIsFaults
       /\ New("OperationFailed", "msg")
    \/ /\ Len(heap) < MaxIsFaults
       /\ \E e \in Faults \cup {Nil} :
             NewMockErr(MockErr(e, "none", <<>>, FALSE, FALSE, FALSE, "no"))
    \/ \E w \in Mocks, e \in Faults \cup {Nil} : SetEmbedded(w, e)
    \/ \E fault \in Faults \cup {Nil} : EmbeddingTower(fault)
    \/ TowerStep

SpecTower == Init /\ [][NextTower]_vars

\* The loop of EmbeddingTower is scheduled until it returns.
SpecTowerLive == Init /\ [][NextTower]_vars /\ WF_vars(TowerStep)

----------------------------------------------------------------------------
(* Properties of EmbeddingTower. *)

\* The faults met by following Embeds() from f, at most n of them.
RECURSIVE ChainFrom(_, _, _)
ChainFrom(h, f, n) ==
    IF f = Nil \/ n = 0 THEN <<>>
    ELSE <<f>> \o ChainFrom(h, h[f].emb, n - 1)

\* The embeds chain of f ends: it meets no fault twice.
Acyclic(h, f) == Len(ChainFrom(h, f, Len(h) + 1)) <= Len(h)

\* An EmbeddingTower call that has returned.
TowerReturned == call.op = "EmbeddingTower" /\ pc = "done"

\* C14: the embedding tower of an absent fault is empty; for a present
\* fault on an acyclic embeds chain it has exactly one entry per fault of
\* the chain, index 0 the innermost fault (which embeds nothing), the last
\* index the fault passed in, and each entry embedding the one before it.
C14_TowerOfAcyclicChain ==
    TowerReturned =>
        /\ call.fault = Nil => stack = <<>>
        /\ (call.fault # Nil /\ Acyclic(heap, call.fault)) =>
              /\ stack = Reverse(ChainFrom(heap, call.fault, Len(heap)))
              /\ \A i, j \in DOMAIN stack : i # j => stack[i] # stack[j]
              /\ Embeds(heap, stack[1]) = Nil
              /\ stack[Len(stack)] = call.fault
              /\ \A i \in 1..(Len(stack) - 1) :
                    Embeds(heap, stack[i + 1]) = stack[i]

\* The tower of a fault wrapped twice has come back with three entries.
C14_Witness ==
    /\ TowerReturned
    /\ call.fault # Nil
    /\ Acyclic(heap, call.fault)
    /\ Len(stack) = 3
    /\ heap[stack[1]].kind = "base"

\* C15: a call of embedding_tower returns, whatever the embeds chain,
\* cyclic ones included.
C15_TowerTerminates ==
    (call.op = "EmbeddingTower" /\ pc = "run") ~> (call.op = "EmbeddingTower" /\ pc = "done")

\* The loop has never more entries on its stack than there are faults,
\* plus the one that was found in the map.
TowerStackBounded ==
    (call.op = "EmbeddingTower" /\ pc = "run") =>
        /\ Len(stack) <= Len(heap) + 1
        /\ Len(stack) <= MaxTower

\* The tower of a fault on a looping embeds chain has come back.
C15_Witness ==
    /\ TowerReturned
    /\ call.fault # Nil
    /\ ~Acyclic(heap, call.fault)
    /\ Len(stack) >= 3

----------------------------------------------------------------------------
(* Rendering: Throw, InfoLines and LinesOf. *)

MaxFrames == 2           \* frames appended to one fault
MaxRenderHeap == 4       \* faults on the heap once a join has been rendered

\* The frames handed to Throw.
Frames == {"f1", "f2"}

\* What a call returns, or the way it fails to return.
Returns(v) == [outcome |-> "ok", value |-> v]
Panics == [outcome |-> "panic", value |-> <<>>]
Hangs == [outcome |-> "hang", value |-> <<>>]

\* The outcome r is the return of the value v.
Gives(r, v) == r.outcome = "ok" /\ r.value = v

\* The outcomes r and s are the same panic, the same hang or the return of
\* the same value.
SameOutcome(r, s) == r.outcome = s.outcome /\ r.value = s.value

\* FaultLevel.String(), src/fault_base.go:142-147.
LevelString(level) ==
    CASE level = FATAL -> "FATAL"
      [] level = ERROR -> "ERROR"
      [] level = WARNING -> "WARNING"
      [] level = NOTICE -> "NOTICE"
      [] level = DEBUG -> "DEBUG"
      [] OTHER -> "FaultLevel(" \o ToString(level) \o ")"

\* faultDescriptor.String(), src/descriptor.go:51-62.
String(d) == "[" \o LevelString(d.level) \o "] (" \o d.code \o ") " \o d.msg

\* ErrorOf, src/faults/operations.go:38-49.
ErrorOf(h, ds, f) ==
    IF f = Nil THEN Returns("")
    ELSE LET base == Access(h, f) IN
         IF base = Hung THEN Hangs
         ELSE IF base = Nil THEN Panics
         ELSE Returns(String(ds[h[base].desc]))

\* strings.Join(elems, sep).
RECURSIVE Joined(_, _)
Joined(elems, sep) ==
    IF elems = <<>> THEN ""
    ELSE IF Len(elems) = 1 THEN elems[1]
    ELSE elems[1] \o sep \o Joined(Tail(elems), sep)

\* Mutant: the frames are joined oldest first.
TraceLinesOldestFirst(stack_trace) ==
    IF Len(stack_trace) > 0
    THEN << "Stack trace:",
            "- " \o Joined(Append(stack_trace, ""), " <- ") >>
    ELSE <<>>

\* The stack trace section of BaseFault.InfoLines, src/unnamed/part_005:
\* 79-89: the frames and one empty string after them, reversed and joined.
TraceLines(stack_trace) ==
    IF Len(stack_trace) > 0
    THEN << "Stack trace:",
            "- " \o Joined(Reverse(Append(stack_trace, "")), " <- ") >>
    ELSE <<>>

\* The suggestions section, src/unnamed/part_005:63-69.
SuggestionLines(suggestions) ==
    IF Len(suggestions) > 0
    THEN <<"Suggestions:">> \o [i \in 1..Len(suggestions) |-> "- " \o suggestions[i]]
    ELSE <<>>

\* One enumeration of the keys of a map: Go leaves the order of range over
\* a map open.
RECURSIVE KeyOrder(_)
KeyOrder(keys) ==
    IF keys = {} THEN <<>>
    ELSE LET k == CHOOSE k \in keys : TRUE IN <<k>> \o KeyOrder(keys \ {k})

\* The context section, src/unnamed/part_005:71-77.
ContextLines(context) ==
    IF DOMAIN context # {}
    THEN LET order == KeyOrder(DOMAIN context) IN
         <<"Context:">> \o
         [i \in 1..Len(order) |-> "- " \o order[i] \o ": " \o context[order[i]]]
    ELSE <<>>

\* BaseFault.InfoLines, src/unnamed/part_005:56-92.
BaseInfoLines(b) ==
    (IF b.ts # ZeroTime THEN <<"Occurred at: " \o ToString(b.ts)>> ELSE <<>>)
    \o SuggestionLines(b.suggestions)
    \o ContextLines(b.context)
    \o TraceLines(b.stack_trace)

\* The InfoLines method of fault f itself: BaseFault's, ErrPanic's (src/
\* unnamed/part_012:27-33), a user type's, or JoinFault's (src/unnamed/
\* part_016:29-38), which calls InfoLines on every member it retains and
\* so dereferences a nil member.
RECURSIVE OwnInfoLines(_, _)
RECURSIVE MemberLines(_, _, _)
MemberLines(h, faults, i) ==
    IF i > Len(faults) THEN Returns(<<>>)
    ELSE IF faults[i] = Nil THEN Panics
    ELSE LET tmp == OwnInfoLines(h, faults[i]) IN
         IF tmp.outcome # "ok" THEN tmp
         ELSE LET rest == MemberLines(h, faults, i + 1) IN
              IF rest.outcome # "ok" THEN rest
              ELSE Returns(tmp.value \o rest.value)

OwnInfoLines(h, f) ==
    CASE h[f].kind = "base" -> Returns(BaseInfoLines(h[f]))
      [] h[f].kind = "join" -> MemberLines(h, h[f].faults, 1)
      [] h[f].typ = "*ErrPanic" -> Returns(<<"- Value: v">>)
      [] OTHER -> Returns(<<"- MockErr">>)

\* EmbeddingTower as a function of the heap: the loop of src/unnamed/
\* part_006:139-155 from the given stack and map on, then the reversal.
RECURSIVE TowerLoop(_, _, _)
TowerLoop(h, collected, seen) ==
    LET top == collected[Len(collected)] IN
    IF top \in seen THEN TowerResult(collected)
    ELSE IF Embeds(h, top) = Nil THEN TowerResult(collected)
    ELSE TowerLoop(h, Append(collected, Embeds(h, top)), seen \cup {top})

TowerOf(h, f) == IF f = Nil THEN <<>> ELSE TowerLoop(h, <<f>>, {})

\* InfoLines, src/unnamed/part_006:170-185, over the tower from index i on.
RECURSIVE TowerLines(_, _, _)
TowerLines(h, tower, i) ==
    IF i > Len(tower) THEN Returns(<<>>)
    ELSE LET tmp == OwnInfoLines(h, tower[i]) IN
         IF tmp.outcome # "ok" THEN tmp
         ELSE LET rest == TowerLines(h, tower, i + 1) IN
              IF rest.outcome # "ok" THEN rest
              ELSE Returns(tmp.value \o rest.value)

InfoLines(h, f) ==
    IF f = Nil THEN Returns(<<>>) ELSE TowerLines(h, TowerOf(h, f), 1)

\* LinesOf, src/unnamed/part_015:157-171.
LinesOf(h, ds, f) ==
    IF f = Nil THEN Returns(<<>>)
    ELSE LET msg == ErrorOf(h, ds, f) IN
         IF msg.outcome # "ok" THEN msg
         ELSE LET tmp == InfoLines(h, f) IN
              IF tmp.outcome # "ok" THEN tmp
              ELSE Returns(<<msg.value \o ".", "">> \o tmp.value)

\* The record of a call of one of the operations on a fault's base.
BaseCall(op, fault, key, value, args) ==
    [op |-> op, fault |-> fault, key |-> key, value |-> value, args |-> args]

\* A call that returns at once with outcome r and leaves heap h, having
\* handed the values of inputs, in order, to the function it was given.
CompletesOn(c, r, h, inputs) ==
    /\ pc # "run"
    /\ pc' = "done"
    /\ call' = c
    /\ result' = r
    /\ heap' = h
    /\ stack' = <<>>
    /\ visited' = inputs
    /\ slot' = Nil
    /\ UNCHANGED <<descs, now, sw, joins>>

\* A call that returns at once with outcome r and leaves heap h.
Completes(c, r, h) == CompletesOn(c, r, h, <<>>)

\* The outcome shared by the operations that reach the base of a present
\* fault through Access and panic when there is none, src/faults/
\* operations.go:30-33 and alike.
NoBase(h, f) == IF Access(h, f) = Hung THEN Hangs ELSE Panics

HasBase(h, f) == Access(h, f) \in 1..Len(h)

\* BaseFault.AppendFrame, src/unnamed/part_005:94-102.
AppendFrame(h, base, frame) ==
    [h EXCEPT ![base].stack_trace = Append(@, frame)]

\* Throw, src/unnamed/part_013:12-25.
Throw(fault, frame) ==
    LET c == BaseCall("Throw", fault, "", "", <<frame>>) IN
    IF fault = Nil THEN Completes(c, Returns(Nil), heap)
    ELSE IF ~HasBase(heap, fault) THEN Completes(c, NoBase(heap, fault), heap)
    ELSE Completes(c, Returns(fault), AppendFrame(heap, Access(heap, fault), frame))

\* A call of LinesOf, src/unnamed/part_015:157-171.
Render(fault) ==
    Completes(BaseCall("LinesOf", fault, "", "", <<>>),
              LinesOf(heap, descs, fault), heap)

\* Faults are built, wrapped, joined, thrown and rendered.
NextRender ==
    \/ /\ Len(heap) < MaxUserFaults
       /\ New("OperationFailed", "msg")
    \/ /\ Len(heap) < MaxUserFaults
       /\ \E e \in Faults \cup {Nil} : NewErrPanic(e)
    \/ /\ Len(heap) + 2 <= MaxRenderHeap
       /\ \E faults \in ArgLists : Join(faults)
    \/ \E fault \in Faults \cup {Nil}, frame \in Frames :
          /\ HasBase(heap, fault) =>
                Len(heap[Access(heap, fault)].stack_trace) < MaxFrames
          /\ Throw(fault, frame)
    \/ \E fault \in Faults \cup {Nil} : Render(fault)

SpecRender == Init /\ [][NextRender]_vars

----------------------------------------------------------------------------
(* Properties of rendering. *)

\* A LinesOf call that has ended.
Rendered == call.op = "LinesOf" /\ pc = "done"

\* The faults of the embeds chain of f, innermost first.
ChainInnermostFirst(h, f) == Reverse(ChainFrom(h, f, Len(h)))

\* The InfoLines method of every fault of the list returns.
AllOwnLinesReturn(h, list) ==
    \A i \in DOMAIN list : OwnInfoLines(h, list[i]).outcome = "ok"

\* The lines of the InfoLines methods of the faults of the list, in order.
RECURSIVE OwnLinesInOrder(_, _)
OwnLinesInOrder(h, list) ==
    IF list = <<>> THEN <<>>
    ELSE OwnInfoLines(h, Head(list)).value \o OwnLinesInOrder(h, Tail(list))

\* The layout C16 describes for a present fault f: the message of the
\* innermost fault and a period, an empty line, then the info lines of the
\* tower members, innermost first.
Layout(h, ds, f) ==
    LET chain == ChainInnermostFirst(h, f) IN
    << String(ds[h[chain[1]].desc]) \o ".", "" >> \o OwnLinesInOrder(h, chain)

\* C16, for the faults whose embedding chain reaches a Base Fault: render
\* of an absent fault is the empty sequence; for a present fault, line 0
\* is the innermost Base Fault's message followed by a period, line 1 is
\* empty, and the remaining lines are the info lines of the tower members,
\* innermost first.
C16_RenderLayout ==
    Rendered =>
        /\ call.fault = Nil => Gives(result, <<>>)
        /\ (call.fault # Nil /\ HasBase(heap, call.fault)) =>
              /\ result.outcome = "ok"
              /\ AllOwnLinesReturn(heap, ChainInnermostFirst(heap, call.fault))
              /\ result.value = Layout(heap, descs, call.fault)

\* The layout holds whenever the InfoLines method of every tower member
\* returns, that is, unless a JoinFault of the tower retains a nil member.
RenderLayoutWhenInfoLinesReturn ==
    (Rendered /\ call.fault # Nil /\ HasBase(heap, call.fault)
        /\ AllOwnLinesReturn(heap, ChainInnermostFirst(heap, call.fault))) =>
        /\ result.outcome = "ok"
        /\ result.value = Layout(heap, descs, call.fault)

\* A wrapped fault with a frame has been rendered: the base's lines come
\* before the wrapper's.
RenderedWrappedFault ==
    /\ Rendered
    /\ call.fault # Nil
    /\ heap[call.fault].typ = "*ErrPanic"
    /\ result.outcome = "ok"
    /\ Len(result.value) = 6
    /\ result.value[6] = "- Value: v"

\* A Throw call that has returned the fault it was given.
Thrown ==
    /\ call.op = "Throw"
    /\ pc = "done"
    /\ call.fault # Nil
    /\ Gives(result, call.fault)

\* The lines hold the header "Stack trace:" once, followed by line.
HasTraceSection(lines, line) ==
    /\ Cardinality({i \in DOMAIN lines : lines[i] = "Stack trace:"}) = 1
    /\ \E i \in 1..(Len(lines) - 1) :
          lines[i] = "Stack trace:" /\ lines[i + 1] = line

\* The lines hold no header "Stack trace:".
HasNoTraceSection(lines) == \A i \in DOMAIN lines : lines[i] # "Stack trace:"

\* Every frame of the list with " <- " in front of it.
RECURSIVE Arrowed(_)
Arrowed(frames) ==
    IF frames = <<>> THEN ""
    ELSE " <- " \o Head(frames) \o Arrowed(Tail(frames))

\* C17 as stated: a fault with frames f1, ..., fn (n >= 1) has in its info
\* lines the header "Stack trace:" followed by one line joining exactly
\* the n frames, fn first and f1 last, with " <- " between consecutive
\* frames; a fault with no frame has no such section.
C17_TraceJoinsFramesNewestFirst ==
    \A b \in Faults :
        heap[b].kind = "base" =>
            LET lines == BaseInfoLines(heap[b])
                frames == heap[b].stack_trace
            IN  IF frames = <<>> THEN HasNoTraceSection(lines)
                ELSE HasTraceSection(lines,
                         "- " \o Joined(Reverse(frames), " <- "))

\* A step of Throw that returns the fault (the constructors leave the
\* record of the last call alone, and change the heap's length or joins).
ThrowStep ==
    /\ call'.op = "Throw"
    /\ call'.fault # Nil
    /\ Gives(result', call'.fault)
    /\ Len(heap') = Len(heap)
    /\ joins' = joins

\* Throw adds its frame after the frames the base already has.
ThrowAppends ==
    ThrowStep =>
        LET b == Access(heap, call'.fault) IN
        /\ heap'[b].stack_trace = Append(heap[b].stack_trace, call'.args[1])
        /\ \A f \in Faults : f # b => heap'[f] = heap[f]

\* C17 amended: Throw appends; a fault with frames f1, ..., fn (n >= 1)
\* has in its info lines the header "Stack trace:" followed by one line
\* made of "- " and then, for every frame from fn down to f1, " <- " and
\* the frame; a fault with no frame has no such section.
C17_TraceArrowsFramesNewestFirst ==
    /\ [](\A b \in Faults :
            heap[b].kind = "base" =>
                LET lines == BaseInfoLines(heap[b])
                    frames == heap[b].stack_trace
                IN  IF frames = <<>> THEN HasNoTraceSection(lines)
                    ELSE HasTraceSection(lines,
                             "- " \o Arrowed(Reverse(frames))))
    /\ [][ThrowAppends]_vars

\* f1 and then f2 have been thrown on a fault.
C17_Witness ==
    /\ Thrown
    /\ call.args = <<"f2">>
    /\ heap[Access(heap, call.fault)].stack_trace = <<"f1", "f2">>
    /\ HasTraceSection(BaseInfoLines(heap[Access(heap, call.fault)]),
                       "-  <- f2 <- f1")

----------------------------------------------------------------------------
(* SetSuggestions, src/faults/operations.go:265-298 (the same as           *)
(* src/flow_control.go:32-65).                                              *)

MaxSuggestions == 3      \* suggestions stored in one fault
MaxSuggestArgs == 2      \* suggestions handed to one call

\* The argument lists of SetSuggestions: empty strings among the others.
SuggestionLists ==
    UNION {[1..n -> {"", "a", "b"}] : n \in 0..MaxSuggestArgs}

\* The non-empty suggestions, src/faults/operations.go:287-293.
Filtered(suggestions) == SelectSeq(suggestions, LAMBDA x : x # "")

\* Mutant: the new suggestions take the place of the stored ones.
Replaced(stored, filtered) == filtered

\* append(base.suggestions, filtered...), src/faults/operations.go:295.
Extended(stored, filtered) == stored \o filtered

SetSuggestions(fault, suggestions) ==
    LET c == BaseCall("SetSuggestions", fault, "", "", suggestions) IN
    IF Len(Filtered(suggestions)) = 0 THEN Completes(c, Returns(TRUE), heap)
    ELSE IF fault = Nil THEN Completes(c, Returns(FALSE), heap)
    ELSE IF ~HasBase(heap, fault) THEN Completes(c, NoBase(heap, fault), heap)
    ELSE LET base == Access(heap, fault) IN
         Completes(c, Returns(TRUE),
             [heap EXCEPT ![base].suggestions =
                              Extended(@, Filtered(suggestions))])

\* Faults are built and wrapped, and given suggestions.
NextSuggest ==
    \/ /\ Len(heap) < MaxUserFaults
       /\ New("OperationFailed", "msg")
    \/ /\ Len(heap) < MaxIsFaults
       /\ \E e \in Faults \cup {Nil} : NewErrPanic(e)
    \/ \E fault \in Faults \cup {Nil}, suggestions \in SuggestionLists :
          /\ HasBase(heap, fault) =>
                Len(heap[Access(heap, fault)].suggestions)
                    + Len(Filtered(suggestions)) <= MaxSuggestions
          /\ SetSuggestions(fault, suggestions)

SpecSuggest == Init /\ [][NextSuggest]_vars

\* A step of SetSuggestions (the constructors reset the record of the last
\* call or make the heap longer).
SuggestStep == call'.op = "SetSuggestions" /\ Len(heap') = Len(heap)

\* What C18 says of one call.
SuggestStepAppends ==
    SuggestStep =>
        LET given == SelectSeq(call'.args, LAMBDA x : x # "") IN
        /\ given = <<>> => (Gives(result', TRUE) /\ heap' = heap)
        /\ Gives(result', FALSE) <=> (given # <<>> /\ call'.fault = Nil)
        /\ ~Gives(result', TRUE) => heap' = heap
        /\ (Gives(result', TRUE) /\ given # <<>>) =>
              LET b == Access(heap, call'.fault) IN
              /\ heap'[b].suggestions = heap[b].suggestions \o given
              /\ \A f \in Faults : f # b => heap'[f] = heap[f]
              /\ heap'[b] = [heap[b] EXCEPT !.suggestions = heap'[b].suggestions]

\* C18: the stored suggestion list of a fault never contains an empty
\* string; every SetSuggestions call appends its non-empty arguments, in
\* argument order, to the list stored before; a call with no non-empty
\* suggestion returns true and changes nothing; and a call returns false
\* only when it has a non-empty suggestion and the fault is absent.
C18_SuggestionsAppendNonEmpty ==
    /\ [](\A b \in Faults :
            \A i \in DOMAIN heap[b].suggestions : heap[b].suggestions[i] # "")
    /\ [][SuggestStepAppends]_vars

\* A second call has appended its one non-empty suggestion to the two a
\* first call had stored.
C18_Witness ==
    /\ call.op = "SetSuggestions"
    /\ call.args = <<"", "b">>
    /\ call.fault # Nil
    /\ Gives(result, TRUE)
    /\ heap[call.fault].typ = "*ErrPanic"
    /\ heap[Access(heap, call.fault)].suggestions = <<"b", "a", "b">>

----------------------------------------------------------------------------
(* The context store, src/faults/operations.go:77-254 (the same as          *)
(* src/unnamed/part_005:121-289 but for the way the base is reached).       *)

\* The keys and values handed to the operations; "7" stands for a value of
\* type int, "v" for one of type string.
Keys == {"", "k1", "k2"}
Values == {"v", "7"}
TypeOfValue(v) == IF v = "7" THEN "int" ELSE "string"
ValueTypes == {"string", "int"}

\* The zero value of a type.
Zero(T) == IF T = "int" THEN "0" ELSE ""

\* The faults the operations return: fresh allocations that are kept out
\* of the heap.  NoFault is the nil Fault.
NoFault == [code |-> "", msg |-> "", suggestions |-> <<>>]

\* NewNilParameter, src/faults/common.go:55-65.
NewNilParameter(param_name) ==
    [code |-> "BadParameter",
     msg |-> "parameter (\"" \o param_name \o "\") must be non-nil",
     suggestions |-> <<>>]

\* NewNoSuchKey, src/faults/common.go:95-105.
NewNoSuchKey(key) ==
    [code |-> "OperationFailed",
     msg |-> "the specified key (\"" \o key \o "\") does not exist",
     suggestions |-> <<>>]

\* The functions handed to EditValue.
EditFns == [Values -> Values]

\* context[key] = value on a map.
Put(context, key, value) ==
    [k \in DOMAIN context \cup {key} |-> IF k = key THEN value ELSE context[k]]

\* delete(context, key).
Removed(context, key) == [k \in DOMAIN context \ {key} |-> context[k]]

\* Mutant: no key is ignored.
IgnoresNoKey(key) == FALSE

\* key == "", src/faults/operations.go:87-89.
IgnoresKey(key) == key = ""

\* Mutant: the pair is put in the context of the fault that was passed.
AddKeyOnTheFault(fault, key, value) ==
    LET c == BaseCall("AddKey", fault, key, value, <<>>) IN
    IF IgnoresKey(key) THEN Completes(c, Returns(TRUE), heap)
    ELSE IF fault = Nil THEN Completes(c, Returns(FALSE), heap)
    ELSE IF ~HasBase(heap, fault) THEN Completes(c, NoBase(heap, fault), heap)
    ELSE Completes(c, Returns(TRUE),
             [heap EXCEPT ![fault].context = Put(@, key, value)])

\* AddKey, src/faults/operations.go:86-107.
AddKey(fault, key, value) ==
    LET c == BaseCall("AddKey", fault, key, value, <<>>) IN
    IF IgnoresKey(key) THEN Completes(c, Returns(TRUE), heap)
    ELSE IF fault = Nil THEN Completes(c, Returns(FALSE), heap)
    ELSE IF ~HasBase(heap, fault) THEN Completes(c, NoBase(heap, fault), heap)
    ELSE LET base == Access(heap, fault) IN
         Completes(c, Returns(TRUE),
             [heap EXCEPT ![base].context = Put(@, key, value)])

\* What GetValue returns, src/faults/operations.go:118-138.
GetValueOf(h, fault, key) ==
    IF fault = Nil
    THEN Returns([value |-> NilValue, err |-> NewNilParameter("fault")])
    ELSE IF ~HasBase(h, fault) THEN NoBase(h, fault)
    ELSE LET context == h[Access(h, fault)].context IN
         IF key \notin DOMAIN context
         THEN Returns([value |-> NilValue, err |-> NewNoSuchKey(key)])
         ELSE Returns([value |-> context[key], err |-> NoFault])

GetValue(fault, key) ==
    Completes(BaseCall("GetValue", fault, key, "", <<>>),
              GetValueOf(heap, fault, key), heap)

\* ValueOf[T], src/faults/operations.go:149-170; the suggestions it sets
\* on the fault it returns are not spelled out.
ValueOf(fault, key, T) ==
    LET c   == BaseCall("ValueOf", fault, key, T, <<>>)
        got == GetValueOf(heap, fault, key)
    IN  IF got.outcome # "ok" THEN Completes(c, got, heap)
        ELSE IF got.value.err # NoFault
        THEN Completes(c, Returns([value |-> Zero(T), err |-> got.value.err]), heap)
        ELSE IF TypeOfValue(got.value.value) # T
        THEN Completes(c,
                 Returns([value |-> Zero(T),
                          err |-> [NewNoSuchKey(key) EXCEPT
                                      !.suggestions = <<"type", "cast">>]]),
                 heap)
        ELSE Completes(c, Returns([value |-> got.value.value, err |-> NoFault]), heap)

\* What SetValue returns and the heap it leaves, src/faults/operations.go:
\* 181-203.
SetValueOf(h, fault, key, value) ==
    IF fault = Nil THEN [ret |-> Returns(NewNilParameter("fault")), heap |-> h]
    ELSE IF ~HasBase(h, fault) THEN [ret |-> NoBase(h, fault), heap |-> h]
    ELSE LET base == Access(h, fault) IN
         IF key \notin DOMAIN h[base].context
         THEN [ret |-> Returns(NewNoSuchKey(key)), heap |-> h]
         ELSE [ret |-> Returns(NoFault),
               heap |-> [h EXCEPT ![base].context = Put(@, key, value)]]

\* Mutant: a missing key is created.
SetValueCreates(fault, key, value) ==
    LET c == BaseCall("SetValue", fault, key, value, <<>>) IN
    IF fault = Nil THEN Completes(c, Returns(NewNilParameter("fault")), heap)
    ELSE IF ~HasBase(heap, fault) THEN Completes(c, NoBase(heap, fault), heap)
    ELSE Completes(c, Returns(NoFault),
             [heap EXCEPT ![Access(heap, fault)].context = Put(@, key, value)])

SetValue(fault, key, value) ==
    LET out == SetValueOf(heap, fault, key, value) IN
    Completes(BaseCall("SetValue", fault, key, value, <<>>), out.ret, out.heap)

\* Mutant: the base is looked for before the fault is tested for nil.
EditValueUnguarded(fault, key, fn) ==
    LET c == BaseCall("EditValue", fault, key, "", fn) IN
    IF ~HasBase(heap, fault) THEN Completes(c, NoBase(heap, fault), heap)
    ELSE LET got == GetValueOf(heap, fault, key) IN
         IF got.value.err # NoFault THEN Completes(c, Returns(got.value.err), heap)
         ELSE LET out == SetValueOf(heap, Access(heap, fault), key,
                                    fn[got.value.value])
              IN  CompletesOn(c, out.ret, out.heap, <<got.value.value>>)

\* Mutant: the value read is written back as it was.
EditValueKeepsValue(fault, key, fn) ==
    LET c == BaseCall("EditValue", fault, key, "", fn) IN
    IF fault = Nil THEN Completes(c, Returns(NewNilParameter("fault")), heap)
    ELSE IF ~HasBase(heap, fault) THEN Completes(c, NoBase(heap, fault), heap)
    ELSE LET got == GetValueOf(heap, fault, key) IN
         IF got.value.err # NoFault THEN Completes(c, Returns(got.value.err), heap)
         ELSE LET out == SetValueOf(heap, Access(heap, fault), key,
                                    got.value.value)
              IN  CompletesOn(c, out.ret, out.heap, <<got.value.value>>)

\* EditValue, src/faults/operations.go:214-233, for a function fn that
\* returns and leaves the fault alone.
EditValue(fault, key, fn) ==
    LET c == BaseCall("EditValue", fault, key, "", fn) IN
    IF fault = Nil THEN Completes(c, Returns(NewNilParameter("fault")), heap)
    ELSE IF ~HasBase(heap, fault) THEN Completes(c, NoBase(heap, fault), heap)
    ELSE LET got == GetValueOf(heap, fault, key) IN
         IF got.value.err # NoFault THEN Completes(c, Returns(got.value.err), heap)
         ELSE LET out == SetValueOf(heap, Access(heap, fault), key,
                                    fn[got.value.value])
              IN  CompletesOn(c, out.ret, out.heap, <<got.value.value>>)

\* DeleteKey, src/faults/operations.go:243-254; it returns nothing.
DeleteKey(fault, key) ==
    LET c == BaseCall("DeleteKey", fault, key, "", <<>>) IN
    IF fault = Nil THEN Completes(c, Returns(NilValue), heap)
    ELSE IF ~HasBase(heap, fault) THEN Completes(c, NoBase(heap, fault), heap)
    ELSE Completes(c, Returns(NilValue),
             [heap EXCEPT ![Access(heap, fault)].context = Removed(@, key)])

\* Faults are built and wrapped, and their context is worked on.
NextContext ==
    \/ /\ Len(heap) < MaxUserFaults
       /\ New("OperationFailed", "msg")
    \/ /\ Len(heap) < MaxUserFaults
       /\ \E e \in Faults \cup {Nil} : NewErrPanic(e)
    \/ \E fault \in Faults \cup {Nil}, key \in Keys, value \in Values :
          AddKey(fault, key, value)
    \/ \E fault \in Faults \cup {Nil}, key \in Keys : GetValue(fault, key)
    \/ \E fault \in Faults \cup {Nil}, key \in Keys, T \in ValueTypes :
          ValueOf(fault, key, T)
    \/ \E fault \in Faults \cup {Nil}, key \in Keys, value \in Values :
          SetValue(fault, key, value)
    \/ \E fault \in Faults \cup {Nil}, key \in Keys, fn \in EditFns :
          EditValue(fault, key, fn)
    \/ \E fault \in Faults \cup {Nil}, key \in Keys : DeleteKey(fault, key)

SpecContext == Init /\ [][NextContext]_vars

----------------------------------------------------------------------------
(* Properties of the context store. *)

StoreOps == {"AddKey", "GetValue", "ValueOf", "SetValue", "EditValue", "DeleteKey"}

\* A step of the operation op (the constructors reset the record of the
\* last call or make the heap longer).
StoreStep(op) == call'.op = op /\ Len(heap') = Len(heap)

\* The keys of the context of the base b.
KeysOf(h, b) == DOMAIN h[b].context

\* What C19 says of a SetValue call on a fault with a base: a key that is
\* not in the context gives the "no such key" fault and leaves the heap as
\* it was; right after AddKey on the same fault and (non-empty) key, the
\* call returns no fault and GetValue then returns the value it was given.
SetValueAfterAddKeyOnly ==
    (StoreStep("SetValue") /\ call'.fault # Nil /\ HasBase(heap, call'.fault)) =>
        LET b == Access(heap, call'.fault) IN
        /\ call'.key \notin KeysOf(heap, b) =>
              /\ Gives(result', NewNoSuchKey(call'.key))
              /\ heap' = heap
        /\ ( /\ call.op = "AddKey"
             /\ call.fault = call'.fault
             /\ call.key = call'.key
             /\ call.key # ""
             /\ Gives(result, TRUE) ) =>
              /\ Gives(result', NoFault)
              /\ Gives(GetValueOf(heap', call'.fault, call'.key),
                    [value |-> call'.value, err |-> NoFault])

\* C19: set_value on a key that is not in the fault's context returns a
\* "no such key" fault and leaves the context unchanged; add_key with a
\* non-empty key immediately followed by set_value on that key returns no
\* error, and get_value then returns the value set.
C19_SetValueNeedsTheKey == [][SetValueAfterAddKeyOnly]_vars

\* SetValue has been refused a key the context lacks, the context holding
\* another key.
C19_Witness ==
    /\ call.op = "SetValue"
    /\ call.fault # Nil
    /\ HasBase(heap, call.fault)
    /\ call.key = "k2"
    /\ Gives(result, NewNoSuchKey("k2"))
    /\ KeysOf(heap, Access(heap, call.fault)) = {"k1"}

\* What C20 says of one call: only AddKey with a non-empty key adds a key,
\* and only that key, to the base of its fault; only DeleteKey removes
\* one; and AddKey with the empty key changes nothing.
OnlyAddAndDeleteChangeKeys ==
    (call'.op \in StoreOps /\ Len(heap') = Len(heap)) =>
        /\ \A b \in Faults :
              KeysOf(heap', b) =
                 IF call'.fault # Nil /\ HasBase(heap, call'.fault)
                       /\ b = Access(heap, call'.fault)
                 THEN IF call'.op = "AddKey" /\ call'.key # ""
                      THEN KeysOf(heap, b) \cup {call'.key}
                      ELSE IF call'.op = "DeleteKey"
                      THEN KeysOf(heap, b) \ {call'.key}
                      ELSE KeysOf(heap, b)
                 ELSE KeysOf(heap, b)
        /\ (call'.op = "AddKey" /\ call'.key = "") =>
              (heap' = heap /\ Gives(result', TRUE))

\* C20: the keys of a Base Fault's context are the non-empty keys passed to
\* add_key minus those later removed by delete_key: get_value, typed_value,
\* set_value and edit_value never add or remove a key, whether they succeed
\* or fail, and add_key with an empty key changes nothing.
C20_KeysAreAddedMinusDeleted ==
    /\ [](\A b \in Faults : "" \notin KeysOf(heap, b))
    /\ [][OnlyAddAndDeleteChangeKeys]_vars

\* DeleteKey has removed one of the two keys of a context.
C20_Witness ==
    /\ call.op = "DeleteKey"
    /\ call.key = "k1"
    /\ call.fault # Nil
    /\ HasBase(heap, call.fault)
    /\ heap[call.fault].typ = "*ErrPanic"
    /\ KeysOf(heap, Access(heap, call.fault)) = {"k2"}

\* A context without keys is the empty map, however it came to be empty.
EmptyContextIsOne ==
    \A b \in Faults : KeysOf(heap, b) = {} => heap[b].context = <<>>

----------------------------------------------------------------------------
(* The context store called with the nil Fault. *)

\* What each operation declares as its result, src/faults/operations.go:
\* 86, 118, 149, 181, 214 and 243: a bool, a value with a Fault, a Fault,
\* or nothing.
ResultType(op) ==
    CASE op = "AddKey" -> "bool"
      [] op \in {"GetValue", "ValueOf"} -> "pair"
      [] op \in {"SetValue", "EditValue"} -> "fault"
      [] OTHER -> "none"

\* The fault a returned result carries; NoFault when the result is a bool
\* or nothing.
FaultOf(c, r) ==
    CASE ResultType(c.op) = "pair" -> r.value.err
      [] ResultType(c.op) = "fault" -> r.value
      [] OTHER -> NoFault

\* The "nil parameter" fault about the parameter fault.
NilParameterFault ==
    [code |-> "BadParameter",
     msg |-> "parameter (\"fault\") must be non-nil",
     suggestions |-> <<>>]

\* One of the six operations has been called with the nil Fault.
StoreCalledOnNil == call.op \in StoreOps /\ pc = "done" /\ call.fault = Nil

\* C21 as stated: called with an absent fault, add_key, get_value,
\* typed_value, set_value and edit_value each produce a "nil parameter"
\* fault as their result, for every key including the empty one, and none
\* of the six operations panics.
C21_NilFaultGivesNilParameter ==
    StoreCalledOnNil =>
        /\ result.outcome = "ok"
        /\ call.op # "DeleteKey" => FaultOf(call, result) = NilParameterFault

\* C21, amended: called with an absent fault, get_value, typed_value,
\* set_value and edit_value produce a "nil parameter" fault for every key,
\* the empty one included; add_key returns a boolean, false for a non-empty
\* key and true for the empty key; delete_key returns; none of the six
\* panics.
C21_NilFaultGivesNilParameterOrFalse ==
    StoreCalledOnNil =>
        /\ result.outcome = "ok"
        /\ ResultType(call.op) \in {"pair", "fault"} =>
              FaultOf(call, result) = NilParameterFault
        /\ call.op = "AddKey" => Gives(result, call.key = "")

\* EditValue has been called with the nil Fault and the empty key while a
\* fault exists, and returned the "nil parameter" fault.
C21_Witness ==
    /\ StoreCalledOnNil
    /\ call.op = "EditValue"
    /\ call.key = ""
    /\ Len(heap) > 0
    /\ Gives(result, NilParameterFault)

----------------------------------------------------------------------------
(* EditValue. *)

\* What C22 says of one EditValue call on a fault with a base b: with the
\* key in the context, no fault is returned, fn has been handed the value
\* stored and nothing else, GetValue then returns what fn made of it, and
\* the other keys keep their values; without the key, the "no such key"
\* fault is returned, fn has been handed nothing and the heap is as it was.
EditValueEdits ==
    (StoreStep("EditValue") /\ call'.fault # Nil /\ HasBase(heap, call'.fault)) =>
        LET b  == Access(heap, call'.fault)
            k  == call'.key
            fn == call'.args
        IN  IF k \in KeysOf(heap, b)
            THEN /\ Gives(result', NoFault)
                 /\ visited' = <<heap[b].context[k]>>
                 /\ Gives(GetValueOf(heap', call'.fault, k),
                       [value |-> fn[heap[b].context[k]], err |-> NoFault])
                 /\ KeysOf(heap', b) = KeysOf(heap, b)
                 /\ \A other \in KeysOf(heap, b) \ {k} :
                       heap'[b].context[other] = heap[b].context[other]
            ELSE /\ Gives(result', NewNoSuchKey(k))
                 /\ visited' = <<>>
                 /\ heap' = heap

\* C22: edit_value(fault, k, fn) on a key k present with value v returns no
\* error and afterwards get_value(fault, k) is fn(v) while every other key
\* keeps its value; on a key that is absent it returns the "no such key"
\* fault, fn is not applied, and the context is unchanged.
C22_EditValueAppliesFn == [][EditValueEdits]_vars

\* EditValue through a wrapper has turned the "v" of k1 into "7" while k2
\* kept its "v".
C22_Witness ==
    /\ call.op = "EditValue"
    /\ call.fault # Nil
    /\ HasBase(heap, call.fault)
    /\ heap[call.fault].typ = "*ErrPanic"
    /\ call.key = "k1"
    /\ visited = <<"v">>
    /\ Gives(result, NoFault)
    /\ KeysOf(heap, Access(heap, call.fault)) = {"k1", "k2"}
    /\ heap[Access(heap, call.fault)].context["k1"] = "7"
    /\ heap[Access(heap, call.fault)].context["k2"] = "v"

----------------------------------------------------------------------------
(* Faults built without a base: the operations that go through Access,     *)
(* src/faults/operations.go:10-23, on an embeds chain that ends in nil     *)
(* before a BaseFault or that loops.                                       *)

MaxStored == 1           \* suggestions, and frames, stored in one fault here

\* The arguments handed to the operations here: the empty key and one
\* other, one value, the function that keeps it, one frame, and the lists
\* of at most one suggestion.
NoBaseKeys == {"", "k1"}
NoBaseValues == {"v"}
NoBaseFns == {[v \in Values |-> v]}
NoBaseFrames == {"f1"}
NoBaseLists == {l \in SuggestionLists : Len(l) <= MaxStored}

\* The operations that reach the base of their fault.
BaseOps == StoreOps \cup {"SetSuggestions", "Throw"}

\* Faults are built, wrapped in user types whose embedded fault is then
\* set, and worked on through every operation that reaches the base.
NextNoBase ==
    \/ /\ Len(heap) < MaxUserFaults
       /\ New("OperationFailed", "msg")
    \/ /\ Len(heap) < MaxUserFaults
       /\ \E e \in Faults \cup {Nil} :
             NewMockErr(MockErr(e, "none", <<>>, FALSE, FALSE, FALSE, "no"))
    \/ \E w \in Mocks, e \in Faults \cup {Nil} : SetEmbedded(w, e)
    \/ \E fault \in Faults \cup {Nil}, key \in NoBaseKeys, value \in NoBaseValues :
          AddKey(fault, key, value)
    \/ \E fault \in Faults \cup {Nil}, key \in NoBaseKeys : GetValue(fault, key)
    \/ \E fault \in Faults \cup {Nil}, key \in NoBaseKeys, T \in ValueTypes :
          ValueOf(fault, key, T)
    \/ \E fault \in Faults \cup {Nil}, key \in NoBaseKeys, value \in NoBaseValues :
          SetValue(fault, key, value)
    \/ \E fault \in Faults \cup {Nil}, key \in NoBaseKeys, fn \in NoBaseFns :
          EditValue(fault, key, fn)
    \/ \E fault \in Faults \cup {Nil}, key \in NoBaseKeys : DeleteKey(fault, key)
    \/ \E fault \in Faults \cup {Nil}, suggestions \in NoBaseLists :
          /\ HasBase(heap, fault) =>
                Len(heap[Access(heap, fault)].suggestions)
                    + Len(Filtered(suggestions)) <= MaxStored
          /\ SetSuggestions(fault, suggestions)
    \/ \E fault \in Faults \cup {Nil}, frame \in NoBaseFrames :
          /\ HasBase(heap, fault) =>
                Len(heap[Access(heap, fault)].stack_trace) < MaxStored
          /\ Throw(fault, frame)

SpecNoBase == Init /\ [][NextNoBase]_vars

\* A step of one of the operations that reach the base (the constructors
\* and SetEmbedded drop the record of the last call).
BaseStep == call'.op \in BaseOps /\ pc' = "done"

\* The embeds chain of f ends in nil at a fault that is not a BaseFault.
EndsWithoutBase(h, f) == f # Nil /\ Access(h, f) = Nil

\* The embeds chain of f comes back to a fault it has passed.
Loops(h, f) == f # Nil /\ Access(h, f) = Hung

\* The call returns before it looks for the base: AddKey with the empty
\* key and SetSuggestions without a non-empty suggestion.
ReturnsEarly(c) ==
    \/ c.op = "AddKey" /\ c.key = ""
    \/ c.op = "SetSuggestions" /\ Filtered(c.args) = <<>>

\* C23: for every present fault whose embedding chain never reaches a
\* genuine Base Fault, whether the chain ends in absence at a non-base
\* fault or loops back on itself, each context-store, suggestion and
\* stack-trace operation surfaces the BadConstruction fault and leaves
\* every fault of the chain unmodified.
C23_NoBaseSurfacesBadConstruction ==
    [][(BaseStep /\ call'.fault # Nil /\ ~HasBase(heap, call'.fault)) =>
          (result'.outcome = "panic" /\ heap' = heap)]_vars

\* On a chain that ends in nil before a BaseFault, every call that gets
\* past its early returns panics with BadConstruction and changes nothing.
EndsWithoutBasePanics ==
    [][(BaseStep /\ EndsWithoutBase(heap, call'.fault)
          /\ ~ReturnsEarly(call')) =>
          (result'.outcome = "panic" /\ heap' = heap)]_vars

\* On a chain that loops, no call that gets past its early returns comes
\* back: nothing is surfaced.
LoopingChainNeverReturns ==
    [][(BaseStep /\ Loops(heap, call'.fault) /\ ~ReturnsEarly(call')) =>
          (result'.outcome = "hang" /\ heap' = heap)]_vars

\* GetValue has been called on a fault that embeds itself.
GetValueOnLoop ==
    /\ call.op = "GetValue"
    /\ call.fault # Nil
    /\ Embeds(heap, call.fault) = call.fault
    /\ pc = "done"

----------------------------------------------------------------------------
(* Try, src/unnamed/part_013:36-81, with NewErrPanic and FromErr of        *)
(* src/faults/err.go.                                                      *)

MaxTryHeap == 4          \* faults on the heap once Try has built its own

\* ErrFault, src/faults/err.go:9-20: a struct that embeds a Fault and holds
\* the Go error Err.
ErrFault(e, err) ==
    [kind |-> "wrap", typ |-> "*ErrFault", desc |-> Nil, ts |-> 0, emb |-> e,
     faults |-> <<>>, uwKind |-> "none", uw |-> <<>>,
     hasIs |-> FALSE, isAns |-> FALSE, hasAs |-> FALSE, asAns |-> FALSE,
     suggestions |-> <<>>, stack_trace |-> <<>>, context |-> <<>>,
     value |-> err]

\* A value handed to panic or returned by recover(): nil, a Fault of the
\* heap, a string, a Go error, or a value of another type.
PanicValue(vkind, fault, v) == [vkind |-> vkind, fault |-> fault, v |-> v]

NilPanic == PanicValue("nil", Nil, NilValue)

PanicValues ==
    {NilPanic, PanicValue("string", Nil, "boom"),
     PanicValue("error", Nil, "io.EOF"), PanicValue("other", Nil, "42")}
    \cup {PanicValue("Fault", f, NilValue) : f \in Faults}

\* The functions handed to Try: the nil func, one that returns, and one
\* that panics with each value.
TryFns ==
    {[kind |-> "nil", panic |-> NilPanic], [kind |-> "returns", panic |-> NilPanic]}
    \cup {[kind |-> "panics", panic |-> x] : x \in PanicValues}

\* What recover() returns in the deferred function, src/unnamed/part_013:
\* 38: nil when fn returned; the value fn panicked with; for panic(nil),
\* nil or a *runtime.PanicNilError, an error, with the Go release and the
\* GODEBUG setting panicnil the program is built and run with.
Recovered(fn) ==
    IF fn.kind # "panics" THEN {NilPanic}
    ELSE IF fn.panic.vkind = "nil"
    THEN {NilPanic, PanicValue("error", Nil, "runtime.PanicNilError")}
    ELSE {fn.panic}

\* The level of the base NewErrPanic builds, src/faults/err.go:92.
PanicLevel == FATAL

\* The level of the base FromErr builds: flt.New, src/faults/err.go:50,
\* which is NewDescriptor(ERROR, ...), src/constructors.go:16-20.
FromErrLevel == ERROR

\* Value: value, src/faults/err.go:96.
Kept(value) == value

\* The record of a Try call: the function, and what recover() returned.
TryCall(fn, r) == BaseCall("Try", r.fault, r.vkind, r.v, fn)

\* The return of Try with fault f, the heap and descriptors being h and ds.
TryReturns(fn, r, f, h, ds) ==
    /\ pc # "run"
    /\ pc' = "done"
    /\ call' = TryCall(fn, r)
    /\ result' = Returns(f)
    /\ heap' = h
    /\ descs' = ds
    /\ stack' = <<>>
    /\ visited' = <<>>
    /\ slot' = Nil
    /\ UNCHANGED <<now, sw, joins>>

\* Try, src/unnamed/part_013:71-81, with try, lines 36-56.
Try(fn) ==
    IF fn.kind = "nil" THEN TryReturns(fn, NilPanic, Nil, heap, descs)
    ELSE \E r \in Recovered(fn) :
        CASE r.vkind = "nil" -> TryReturns(fn, r, Nil, heap, descs)
          [] r.vkind = "Fault" -> TryReturns(fn, r, r.fault, heap, descs)
          [] r.vkind = "error" ->
                /\ Len(heap) + 2 <= MaxTryHeap
                /\ TryReturns(fn, r, Len(heap) + 2,
                      heap \o << BaseFault(Len(descs) + 1, now),
                                 ErrFault(Len(heap) + 1, r.v) >>,
                      Append(descs, Descriptor(FromErrLevel, "Unknown",
                                               "something went wrong")))
          [] OTHER ->
                /\ Len(heap) + 2 <= MaxTryHeap
                /\ TryReturns(fn, r, Len(heap) + 2,
                      heap \o << BaseFault(Len(descs) + 1, now),
                                 [ErrPanic(Len(heap) + 1) EXCEPT
                                     !.value = Kept(r.v)] >>,
                      Append(descs, Descriptor(PanicLevel, "Unknown",
                                               "a panic occurred")))

\* Faults are built and wrapped, and functions are tried.
NextTry ==
    \/ Tick
    \/ /\ Len(heap) < MaxUserFaults
       /\ New("OperationFailed", "msg")
    \/ /\ Len(heap) < MaxUserFaults
       /\ \E e \in Faults \cup {Nil} : NewErrPanic(e)
    \/ \E fn \in TryFns : Try(fn)

SpecTry == Init /\ [][NextTry]_vars

\* A Try call has returned.
Tried == call.op = "Try" /\ pc = "done"

\* The fault returned is one Try built: a fault of the given level that
\* carries the value recover() returned.
BuiltFor(f, level, v) ==
    /\ f \in Faults
    /\ LevelOf(heap, descs, f) = level
    /\ heap[f].value = v

\* C24: Try(fn) returns absence when fn is nil, when fn returns without
\* panicking, or when the recovered value is nil; when fn panics with a
\* value that is itself a Fault it returns that same fault; for every other
\* panic value (a string, a Go error, or anything else) it returns a fault
\* of level Fatal that carries the original panic value.
C24_TryNormalizesPanics ==
    Tried =>
        LET fn == call.args
            f  == result.value
        IN  /\ fn.kind \in {"nil", "returns"} => f = Nil
            /\ call.key = "nil" => f = Nil
            /\ call.key = "Fault" => f = call.fault
            /\ (fn.kind = "panics"
                  /\ fn.panic.vkind \in {"string", "error", "other"}) =>
                  BuiltFor(f, FATAL, fn.panic.v)

\* What does hold: as above, but a recovered Go error, the one fn panicked
\* with or the one the runtime made of panic(nil), gives a fault of level
\* ERROR that carries the error.
TryNormalizesPanicsErrorsAsError ==
    Tried =>
        LET fn == call.args
            f  == result.value
        IN  /\ fn.kind \in {"nil", "returns"} => f = Nil
            /\ call.key = "nil" => f = Nil
            /\ call.key = "Fault" => f = call.fault
            /\ (fn.kind = "panics" /\ fn.panic.vkind \in {"string", "other"}) =>
                  BuiltFor(f, FATAL, fn.panic.v)
            /\ call.key = "error" => BuiltFor(f, ERROR, call.value)

\* Try has recovered a Go error.
TriedAnError == Tried /\ call.key = "error" /\ call.args.panic.vkind = "error"

----------------------------------------------------------------------------
(* The frame of Traverse, Is and As. *)

\* C25: traverse, is and as leave the fault graph unchanged: after any
\* call, every fault's embeds link, unwrap targets (including the content
\* and order of a list of nested faults that contains absent entries),
\* context, suggestions and stack trace are the same as before the call.
C25_SearchLeavesGraphUnchanged == [][pc = "run" => heap' = heap]_vars

\* The list s holds a nil entry.
HasNilEntry(s) == \E i \in DOMAIN s : s[i] = Nil

\* What does hold: an iteration changes nothing but the list of a visited
\* fault whose Unwrap() []Fault returned a list with a nil entry, and that
\* list keeps its length.
SearchChangesOnlyListsWithNil ==
    [][pc = "run" =>
          \A f \in Faults :
             \/ heap'[f] = heap[f]
             \/ /\ f = stack[Len(stack)]
                /\ heap[f].uwKind = "many"
                /\ HasNilEntry(heap[f].uw)
                /\ Len(heap'[f].uw) = Len(heap[f].uw)
                /\ heap'[f] = [heap[f] EXCEPT !.uw = heap'[f].uw]]_vars

\* Is has returned from a search that rewrote the list of the fault it
\* started at: the nil entry is gone and a member stands in it twice.
SearchRewroteAList ==
    /\ call.op = "Is"
    /\ pc = "done"
    /\ call.fault # Nil
    /\ heap[call.fault].uwKind = "many"
    /\ Len(heap[call.fault].uw) = 2
    /\ heap[call.fault].uw[1] = heap[call.fault].uw[2]
    /\ heap[call.fault].uw[1] # Nil
    /\ Len(visited) = 2
    /\ visited[1] = call.fault

----------------------------------------------------------------------------
(* Traverse with any function, over graphs whose unwrap links may loop.    *)

\* m.inner = e, or m.list = l, on a fault of a user-defined type whose
\* Unwrap method returns that field, src/unnamed/part_014:50-57: this is
\* how the unwrap links come to loop.
SetUnwrap(m, uw) ==
    /\ pc # "run"
    /\ heap[m].uw # uw
    /\ heap' = [heap EXCEPT ![m].uw = uw]
    /\ ResetCall
    /\ UNCHANGED <<descs, now, sw, joins>>

\* An iteration of Traverse while its stack is one the model follows: a
\* search of a graph without a cycle never holds more than
\* 1 + MaxMocks * (MaxUnwrap - 1) faults on it.
BoundedStep == Len(stack) <= MaxStack /\ TraverseStep

\* The functions handed to Traverse: nil, the one that is never true, and
\* those that are true on one fault.
VisitFns ==
    {VisitFn(TRUE, {}), NeverTrue} \cup {VisitFn(FALSE, {f}) : f \in Faults}

\* Faults are built, given unwrap targets, re-targeted and traversed.
NextVisit ==
    \/ /\ Len(heap) < MaxIsFaults
       /\ New("OperationFailed", "msg")
    \/ /\ Len(heap) < MaxIsFaults
       /\ Cardinality(Mocks) < MaxMocks
       /\ \E u \in UnwrapShapes :
             NewMockErr(MockErr(Nil, u.uwKind, u.uw, FALSE, FALSE, FALSE, "no"))
    \/ \E m \in Mocks, u \in UnwrapShapes :
          /\ u.uwKind = heap[m].uwKind
          /\ SetUnwrap(m, u.uw)
    \/ \E fault \in Faults \cup {Nil}, fn \in VisitFns : TraverseWith(fault, fn)
    \/ BoundedStep

SpecVisit == Init /\ [][NextVisit]_vars

\* The loop of Traverse is scheduled until it returns.
SpecVisitLive == Init /\ [][NextVisit]_vars /\ WF_vars(BoundedStep)

\* A Traverse call is under way or over.
Traversing == call.op = "Traverse" /\ pc \in {"run", "done"}

\* The log holds every invocation of fn.
LoggedAll == Len(visited) < MaxVisits

\* C28: traverse(fault, visit) returns false without invoking visit when
\* fault is absent or visit is nil; otherwise it invokes visit on the root
\* first, never invokes visit on an absent node (absent single unwrap
\* targets and absent list entries are skipped), invokes visit on no
\* further node once a visit call has returned true, and returns true
\* exactly when some visit call returned true.
C28_TraverseContract ==
    (Traversing /\ LoggedAll) =>
        LET fn == call.fn
            n  == Len(visited)
        IN  IF call.fault = Nil \/ fn.nil
            THEN pc = "done" /\ result = FALSE /\ visited = <<>>
            ELSE /\ n > 0 => visited[1] = call.fault
                 /\ \A i \in 1..n : visited[i] # Nil
                 /\ \A i \in 1..(n - 1) : visited[i] \notin fn.yes
                 /\ (n > 0 /\ visited[n] \in fn.yes) => pc = "done"
                 /\ pc = "done" =>
                       /\ n > 0
                       /\ result = (visited[n] \in fn.yes)

\* Traverse has returned true at the member that follows a nil entry in
\* the list of the root, after the root alone.
C28_Witness ==
    /\ Traversing
    /\ pc = "done"
    /\ result = TRUE
    /\ call.fault # Nil
    /\ heap[call.fault].uwKind = "many"
    /\ Len(visited) = 2
    /\ visited[1] = call.fault
    /\ visited[2] # call.fault
    /\ stack # <<>>

\* C26: traverse (and therefore is and as) terminates on every fault graph
\* over a finite set of faults, including one whose unwrap links form a
\* cycle, when visit returns false on every node.
C26_TraverseTerminates ==
    (call.op = "Traverse" /\ pc = "run" /\ call.fn = NeverTrue)
        ~> (call.op = "Traverse" /\ pc = "done")

\* The unwrap links reachable from f come back to a fault they left.
RECURSIVE StrictClosure(_, _, _)
StrictClosure(h, S, n) ==
    IF n = 0 THEN S
    ELSE StrictClosure(h, S \cup UNION {UnwrapTargets(h, x) : x \in S}, n - 1)

OnCycle(h, f) ==
    f \in StrictClosure(h, UnwrapTargets(h, f), Len(h))

Cyclic(h, f) == \E x \in Reachable(h, f) : OnCycle(h, x)

\* What does hold: with a function that is never true, a traversal that
\* has returned was of a graph without a cycle; one of a graph with a
\* cycle is still in its loop.
NeverTrueReturnsOnlyWithoutCycle ==
    (call.op = "Traverse" /\ call.fault # Nil /\ call.fn = NeverTrue
        /\ pc = "done") => ~Cyclic(heap, call.fault)

\* The traversal of a fault that unwraps to itself is past its eighth
\* invocation of fn.
TraversalSpins ==
    /\ call.op = "Traverse"
    /\ pc = "run"
    /\ Len(visited) = MaxVisits
    /\ stack = <<call.fault>>

\* The bounds of the model cut no search that returns: one that has
\* returned is logged whole, and a stack beyond MaxStack is that of a search
\* of a graph with a cycle.
ReturningSearchIsLoggedWhole ==
    (call.op = "Traverse" /\ pc = "done") => Len(visited) < MaxVisits

StackBoundOnlyOnCycles ==
    (call.op = "Traverse" /\ Len(stack) > MaxStack) => Cyclic(heap, call.fault)

----------------------------------------------------------------------------
(* The writer boundary, package errs: ErrShortWrite and StreamWriter,      *)
(* src/writer.go:229-358.                                                   *)

MaxData == 2             \* bytes handed to one Write
MaxBytes == 3            \* bytes handed to one StreamWriter in all
MaxWriterHeap == 4       \* faults on the heap

\* ErrShortWrite, src/writer.go:231-239: a struct that embeds a Fault and
\* holds the two counts Expected and Actual.
ErrShortWrite(e, expected, actual) ==
    [kind |-> "wrap", typ |-> "*ErrShortWrite", desc |-> Nil, ts |-> 0, emb |-> e,
     faults |-> <<>>, uwKind |-> "none", uw |-> <<>>,
     hasIs |-> FALSE, isAns |-> FALSE, hasAs |-> FALSE, asAns |-> FALSE,
     suggestions |-> <<>>, stack_trace |-> <<>>, context |-> <<>>,
     value |-> NilValue, Expected |-> expected, Actual |-> actual]

\* The errors of the underlying io.Writer, and io.ErrShortWrite.
WriteErrors == {NilValue, "EIO"}
IoErrShortWrite == "short write"

\* The heap and descriptors after NewErrShortWrite(expected, actual),
\* src/writer.go:268-279: the base of New(OperationFail, "short write"),
\* and the struct with Expected: 0 and Actual: 0.
NewErrShortWrite(h, ds, t, expected, actual) ==
    [heap |-> h \o << BaseFault(Len(ds) + 1, t),
                      ErrShortWrite(Len(h) + 1, 0, 0) >>,
     descs |-> Append(ds, Descriptor(ERROR, "OperationFail", "short write")),
     fault |-> Len(h) + 2]

\* The heap and descriptors after NewFaultErr(err), src/constructors.go:
\* 295-302.
NewFaultErr(h, ds, t, err) ==
    [heap |-> h \o << BaseFault(Len(ds) + 1, t),
                      [ErrFault(Len(h) + 1, err) EXCEPT !.typ = "*FaultErr"] >>,
     descs |-> Append(ds, Descriptor(ERROR, "Unknown", "something went wrong")),
     fault |-> Len(h) + 2]

\* A call on the writer boundary that returns r and leaves the heap,
\* descriptors and StreamWriter h, ds and w.
WriterReturns(c, r, h, ds, w) ==
    /\ pc # "run"
    /\ pc' = "done"
    /\ call' = c
    /\ result' = r
    /\ heap' = h
    /\ descs' = ds
    /\ sw' = w
    /\ stack' = <<>>
    /\ visited' = <<>>
    /\ slot' = Nil
    /\ UNCHANGED <<now, joins>>

\* WriterOf, src/writer.go:350-358: a new StreamWriter takes the place of
\* the program's.
WriterOf ==
    WriterReturns(BaseCall("WriterOf", Nil, "", "", <<>>), Returns(Nil),
                  heap, descs, StreamWriter(NilValue, 0, 0))

\* A direct call of NewErrShortWrite.
ShortWrite(expected, actual) ==
    LET out == NewErrShortWrite(heap, descs, now, expected, actual) IN
    /\ Len(heap) + 2 <= MaxWriterHeap
    /\ WriterReturns(BaseCall("NewErrShortWrite", Nil, "", "", <<expected, actual>>),
                     Returns(out.fault), out.heap, out.descs, sw)

\* StreamWriter.Write, src/writer.go:300-321, on data of length len, the
\* underlying io.Writer accepting n of them and returning err; receiver is
\* "nil" for the call on a nil *StreamWriter.
StreamWrite(receiver, len, n, err) ==
    LET c == BaseCall("Write", Nil, receiver, "", <<len, n>>) IN
    IF len = 0 THEN WriterReturns(c, Returns([n |-> 0, err |-> NilValue]),
                                  heap, descs, sw)
    ELSE IF receiver = "nil" THEN WriterReturns(c, Panics, heap, descs, sw)
    ELSE LET e == IF err = NilValue /\ n < len THEN IoErrShortWrite ELSE err IN
         WriterReturns(c, Returns([n |-> n, err |-> e]), heap, descs,
             StreamWriter(IF e # NilValue THEN e ELSE sw.err,
                          sw.actual + n, sw.total + len))

\* StreamWriter.Fault, src/writer.go:331-341.
Fault ==
    LET c == BaseCall("Fault", Nil, "", "", <<sw.total, sw.actual>>) IN
    IF sw.err # NilValue
    THEN LET out == NewFaultErr(heap, descs, now, sw.err) IN
         /\ Len(heap) + 2 <= MaxWriterHeap
         /\ WriterReturns(c, Returns(out.fault), out.heap, out.descs, sw)
    ELSE IF sw.actual < sw.total
    THEN LET out == NewErrShortWrite(heap, descs, now, sw.total, sw.actual) IN
         /\ Len(heap) + 2 <= MaxWriterHeap
         /\ WriterReturns(c, Returns(out.fault), out.heap, out.descs, sw)
    ELSE WriterReturns(c, Returns(Nil), heap, descs, sw)

\* Writers are made and written to, and short writes are reported.
NextWriter ==
    \/ Tick
    \/ WriterOf
    \/ \E expected \in 1..MaxData :
          \E actual \in 0..(expected - 1) : ShortWrite(expected, actual)
    \/ \E receiver \in {"nil", "sw"}, len \in 0..MaxData, err \in WriteErrors :
          \E n \in 0..len :
             /\ sw.total + len <= MaxBytes
             /\ StreamWrite(receiver, len, n, err)
    \/ Fault

SpecWriter == Init /\ [][NextWriter]_vars

\* The fault f is an ErrShortWrite holding the counts expected and actual.
ReportsCounts(f, expected, actual) ==
    /\ f \in Faults
    /\ heap[f].typ = "*ErrShortWrite"
    /\ heap[f].Expected = expected
    /\ heap[f].Actual = actual

\* C27: every short-write fault reported by the writer boundary carries
\* the byte counts of the write it reports: a fault built for a write of
\* `expected` bytes of which `actual` were written records those two
\* numbers, and StreamWriter.Fault() after writes totalling T bytes of which
\* A < T were accepted reports Expected = T and Actual = A.
C27_ShortWriteCarriesCounts ==
    /\ (call.op = "NewErrShortWrite" /\ pc = "done") =>
          ReportsCounts(result.value, call.args[1], call.args[2])
    /\ (call.op = "Fault" /\ pc = "done" /\ sw.actual < sw.total) =>
          ReportsCounts(result.value, sw.total, sw.actual)

\* What does hold: every ErrShortWrite holds the counts 0 and 0, whatever
\* it was built for, and Fault() never returns one after a write was cut
\* short, since Write has recorded io.ErrShortWrite or the writer's error by
\* then: it returns the fault NewFaultErr makes of that error.
ShortWriteCountsAreZero ==
    /\ \A f \in Faults : heap[f].typ = "*ErrShortWrite" => ReportsCounts(f, 0, 0)
    /\ sw.actual < sw.total => sw.err # NilValue
    /\ (call.op = "Fault" /\ pc = "done" /\ sw.actual < sw.total) =>
          /\ result.value \in Faults
          /\ heap[result.value].typ = "*FaultErr"
          /\ heap[result.value].value = sw.err

\* NewErrShortWrite has been called for a write of two bytes of which one
\* was written.
BuiltForTwoOfWhichOne ==
    call.op = "NewErrShortWrite" /\ pc = "done" /\ call.args = <<2, 1>>

----------------------------------------------------------------------------
(* EmbeddingTower on chains that loop. *)

\* The number of entries of s that are x.
Occurrences(s, x) == Cardinality({i \in DOMAIN s : s[i] = x})

\* C29: the sequence returned by embedding_tower contains each fault at
\* most once, for every embeds chain including a cyclic one (a revisited
\* fault is not added a second time).
C29_TowerHoldsEachFaultOnce ==
    TowerReturned => \A f \in Faults : Occurrences(stack, f) <= 1

\* What does hold: the tower of a chain that does not loop holds each
\* fault once; that of a chain that loops holds the fault the chain comes
\* back to twice, as its first entry and further up, and every other fault
\* of the chain once.
TowerRepeatsTheRevisitedFault ==
    (TowerReturned /\ call.fault # Nil) =>
        IF Acyclic(heap, call.fault)
        THEN \A f \in Faults : Occurrences(stack, f) <= 1
        ELSE /\ Occurrences(stack, stack[1]) = 2
             /\ \A f \in Faults \ {stack[1]} : Occurrences(stack, f) <= 1

\* EmbeddingTower has returned the tower of a fault that embeds itself.
ToweredASelfEmbedding ==
    /\ TowerReturned
    /\ call.fault # Nil
    /\ Embeds(heap, call.fault) = call.fault

----------------------------------------------------------------------------
(* One base under several wrappers. *)

\* Faults are built and wrapped, more than once, and worked on through
\* any of them.
NextShared ==
    \/ /\ Len(heap) < MaxUserFaults
       /\ New("OperationFailed", "msg")
    \/ /\ Len(heap) < MaxIsFaults
       /\ \E e \in Faults \cup {Nil} : NewErrPanic(e)
    \/ \E fault \in Faults \cup {Nil}, key \in NoBaseKeys, value \in Values :
          AddKey(fault, key, value)
    \/ \E fault \in Faults \cup {Nil}, key \in NoBaseKeys : GetValue(fault, key)
    \/ \E fault \in Faults \cup {Nil}, suggestions \in NoBaseLists :
          /\ HasBase(heap, fault) =>
                Len(heap[Access(heap, fault)].suggestions)
                    + Len(Filtered(suggestions)) <= MaxStored
          /\ SetSuggestions(fault, suggestions)
    \/ \E fault \in Faults \cup {Nil}, frame \in NoBaseFrames :
          /\ HasBase(heap, fault) =>
                Len(heap[Access(heap, fault)].stack_trace) < MaxStored
          /\ Throw(fault, frame)

SpecShared == Init /\ [][NextShared]_vars

\* A step of AddKey, SetSuggestions or Throw on a present fault that has a
\* base.
MutatingStep ==
    /\ call'.op \in {"AddKey", "SetSuggestions", "Throw"}
    /\ pc' = "done"
    /\ Len(heap') = Len(heap)
    /\ call'.fault # Nil
    /\ HasBase(heap, call'.fault)

\* The step changes no fault but the base of the fault it was given, where
\* it appends the frame or the non-empty suggestions.
GoesToTheBase ==
    LET b == Access(heap, call'.fault) IN
    /\ \A f \in Faults \ {b} : heap'[f] = heap[f]
    /\ call'.op = "Throw" =>
          heap'[b].stack_trace = Append(heap[b].stack_trace, call'.args[1])
    /\ call'.op = "SetSuggestions" =>
          heap'[b].suggestions = heap[b].suggestions \o Filtered(call'.args)

\* After the step, an AddKey, GetValue returns the value for the key on
\* every fault whose chain reaches the same base, the base itself
\* included, and what it returned before on every other fault.
ReadThroughEveryWrapper ==
    LET b == Access(heap, call'.fault) IN
    \A g \in Faults :
        IF HasBase(heap, g) /\ Access(heap, g) = b
        THEN Gives(GetValueOf(heap', g, call'.key),
                [value |-> call'.value, err |-> NoFault])
        ELSE SameOutcome(GetValueOf(heap', g, call'.key),
                GetValueOf(heap, g, call'.key))

\* No fault but a BaseFault holds a context, suggestions or a stack trace.
WrappersHoldNoCopy ==
    \A f \in Faults :
        heap[f].kind # "base" =>
            /\ heap[f].context = <<>>
            /\ heap[f].suggestions = <<>>
            /\ heap[f].stack_trace = <<>>

\* C30: context, suggestion and stack-trace mutations made through any
\* fault of an embedding chain are applied to the chain's single innermost
\* Base Fault: after add_key(w, k, v) on a wrapper w, get_value returns v
\* for k when called on the Base Fault itself and on every other wrapper
\* whose chain reaches that same Base Fault, and the wrappers themselves
\* hold no separate copy.
C30_MutationsReachTheSharedBase ==
    /\ []WrappersHoldNoCopy
    /\ [][MutatingStep =>
            /\ GoesToTheBase
            /\ call'.op = "AddKey" => ReadThroughEveryWrapper]_vars

\* C30, amended: the same, for add_key with a non-empty key k (add_key
\* with the empty key stores nothing, and get_value then returns the "no
\* such key" fault for it on every fault of the chain).
C30_MutationsReachTheSharedBaseForRealKeys ==
    /\ []WrappersHoldNoCopy
    /\ [][MutatingStep =>
            /\ GoesToTheBase
            /\ (call'.op = "AddKey" /\ call'.key # "") => ReadThroughEveryWrapper
            /\ (call'.op = "AddKey" /\ call'.key = "") =>
                  /\ heap' = heap
                  /\ \A g \in Faults :
                        HasBase(heap, g) =>
                           Gives(GetValueOf(heap', g, ""),
                              [value |-> NilValue, err |-> NewNoSuchKey("")])]_vars

\* AddKey through one wrapper has stored a value that GetValue returns
\* through another wrapper of the same base and on the base itself.
C30_Witness ==
    /\ call.op = "AddKey"
    /\ pc = "done"
    /\ call.key = "k1"
    /\ call.fault # Nil
    /\ heap[call.fault].typ = "*ErrPanic"
    /\ HasBase(heap, call.fault)
    /\ \E g \in Faults \ {call.fault} :
          /\ heap[g].typ = "*ErrPanic"
          /\ Access(heap, g) = Access(heap, call.fault)
          /\ Gives(GetValueOf(heap, g, "k1"),
                [value |-> call.value, err |-> NoFault])
    /\ Gives(GetValueOf(heap, Access(heap, call.fault), "k1"),
          [value |-> call.value, err |-> NoFault])
====
